---- MODULE Spec2Model ----
(***************************************************************************)
(* A model of the procedural area generator of Sulis                       *)
(* (sulis_module/src/generator/area_generator.rs).                         *)
(*                                                                         *)
(* The module holds several specifications over one set of variables:      *)
(*   SpecLayers  create_layers applied to a TilesModel built by            *)
(*               TilesModel::add with arbitrary integer coordinates.       *)
(*   SpecNew     AreaGenerator::new, one parameter group at a time.        *)
(*   Spec        AreaGenerator::generate, stage by stage, called           *)
(*               repeatedly on one generator.                              *)
(*   SpecWalls   add_walls, one coarse maze cell at a time, for every      *)
(*               outcome of the random draws.                              *)
(*   SpecCarve   carve_wall applied once to a cell, for every value of its *)
(*               roll.                                                     *)
(* and of the GameState of sulis_state/src/lib.rs:                         *)
(*   SpecGame    GameState::init followed by GameState::transition calls.  *)
(*   SpecParty   add_party_member and select_party_members.                *)
(*   SpecUi      the pending UI callbacks.                                 *)
(*   SpecAnims   add_animation and the animation part of update.           *)
(* A specification leaves the variables of the others at their idle value. *)
(***************************************************************************)
EXTENDS Integers, Sequences, FiniteSets, TLC

VARIABLES
    cl_pc,       \* SpecLayers: "build" while tiles are added, then "done"
    cl_width,    \* create_layers' width argument
    cl_height,   \* create_layers' height argument
    cl_model,    \* the TilesModel handed to create_layers
    cl_out,      \* what create_layers returned
    builder,     \* SpecNew: the GeneratorBuilder handed to AreaGenerator::new
    new_pc,      \* the parameter group AreaGenerator::new resolves next
    new_out,     \* what AreaGenerator::new returned
    generator,   \* the AreaGenerator generate() is called on
    args,        \* the arguments of the generate() call in progress
    pc,          \* the stage generate() runs next
    trace,       \* the stages the call in progress has run, in order
    model,       \* the GenModel of the call
    maze,        \* the Maze of the call
    open_locs,   \* the open locations handed to Maze::generate
    mapped,      \* add_walls' map from region to wall kind
    cell,        \* the number of maze cells the carving loop has visited
    layers,      \* the layers built before feature generation
    props,       \* what PropGen returned
    encounters,  \* what EncounterGen returned
    result,      \* what generate() returned
    calls,       \* the number of generate() calls that have returned
    first,       \* the first call: its arguments, its result, its random source
    cw_pc,       \* SpecCarve: "ready", then "carved", "counted" or "shaped"
    cw_in,       \* the cell carve_wall is applied to, the chance and the memo
    cw_out,      \* what the application of carve_wall left
    gs_pc,       \* GameState: "off", or what the running specification did last
    game_state,  \* the thread-local STATE: None or Some(GameState)
    area_states, \* the AreaState objects made so far, in order of creation
    entities,    \* the EntityState objects, by the id of their actor
    clear_anims, \* the thread-local CLEAR_ANIMS flag
    animations,  \* the thread-local ANIMATIONS: the active animations
    anims_to_add, \* the thread-local ANIMS_TO_ADD: animations waiting to be added
    gs_obs       \* what the last GameState operation was given and gave back

clVars == <<cl_pc, cl_width, cl_height, cl_model, cl_out>>
newVars == <<builder, new_pc, new_out>>
callVars == <<args, pc, trace, model, maze, open_locs, mapped, cell, layers, props,
              encounters, result, calls, first>>
genVars == <<generator, callVars>>

cwVars == <<cw_pc, cw_in, cw_out>>

gsVars == <<gs_pc, game_state, area_states, entities, clear_anims, animations,
            anims_to_add, gs_obs>>

vars == <<clVars, newVars, genVars, cwVars, gsVars>>

(***************************************************************************)
(* Bounds.                                                                 *)
(***************************************************************************)
MaxDim == 2        \* largest width and height of an area in SpecLayers
MaxPlace == 2      \* most tile placements held by the TilesModel in SpecLayers
TapeLen == 2       \* length of the tape a random source is seeded with
MaxCalls == 2      \* generate() calls on one generator

\* Option<T>: None is the empty tuple, Some(v) the tuple of v
None == << >>
Some(v) == <<v>>
Unwrap(o) == o[1]
NoResult == [status |-> "none"]

Point(x, y) == [x |-> x, y |-> y]

(***************************************************************************)
(* TilesModel: the layers in insertion order, each a list of placements    *)
(* (point, tile).                                                          *)
(***************************************************************************)
LayerIds == {"terrain", "walls"}

EmptyTiles == << >>

LayerIndex(tiles, id) ==
    IF \E i \in 1..Len(tiles) : tiles[i].id = id
    THEN CHOOSE i \in 1..Len(tiles) : tiles[i].id = id
    ELSE 0

\* TilesModel::add(tile, x, y): the placement goes to the layer the tile
\* names, which is created at first use.
TilesAdd(tiles, tile, x, y) ==
    LET i == LayerIndex(tiles, tile.layer)
        pl == [p |-> Point(x, y), tile |-> tile]
    IN  IF i = 0
        THEN Append(tiles, [id |-> tile.layer, data |-> <<pl>>])
        ELSE [tiles EXCEPT ![i].data = Append(@, pl)]

NumPlacements(tiles) ==
    LET RECURSIVE Sum(_)
        Sum(i) == IF i = 0 THEN 0 ELSE Len(tiles[i].data) + Sum(i - 1)
    IN  Sum(Len(tiles))

(***************************************************************************)
(* Layer::new(width, height, id, tiles): fails on inconsistent dimensions. *)
(***************************************************************************)
LayerNew(width, height, id, tiles) ==
    IF width > 0 /\ height > 0 /\ DOMAIN tiles = 0..(width * height - 1)
    THEN [status |-> "ok",
          layer |-> [id |-> id, width |-> width, height |-> height, tiles |-> tiles]]
    ELSE [status |-> "err"]

(***************************************************************************)
(* create_layers.                                                          *)
(***************************************************************************)
\* tiles[index] of a Vec of len entries: a negative i32 cast to usize is far
\* beyond any length, so indexing panics exactly outside 0..len-1.
IndexOk(index, len) == index >= 0 /\ index < len

\* the guard of line 136
SkipPlacement(p, width, height) == p.x >= width \/ p.y >= height

\* the inner loop, lines 135-139, from placement k on
RECURSIVE place_tiles(_, _, _, _, _)
place_tiles(width, height, data, k, tiles) ==
    IF k > Len(data)
    THEN [status |-> "ok", tiles |-> tiles]
    ELSE LET p == data[k].p
             index == p.x + p.y * width
         IN  IF SkipPlacement(p, width, height)
             THEN place_tiles(width, height, data, k + 1, tiles)
             ELSE IF ~IndexOk(index, width * height)
                  THEN [status |-> "panic", tiles |-> tiles]
                  ELSE place_tiles(width, height, data, k + 1,
                                   [tiles EXCEPT ![index] = Append(@, data[k].tile)])

\* the outer loop with each Layer put in front of the ones made before it
RECURSIVE create_layers_from_front(_, _, _, _, _)
create_layers_from_front(width, height, tmodel, i, out) ==
    IF i > Len(tmodel)
    THEN [status |-> "ok", layers |-> out]
    ELSE LET placed == place_tiles(width, height, tmodel[i].data, 1,
                                   [c \in 0..(width * height - 1) |-> << >>])
         IN  IF placed.status = "panic"
             THEN [status |-> "panic", layers |-> << >>]
             ELSE LET layer == LayerNew(width, height, tmodel[i].id, placed.tiles)
                  IN  IF layer.status = "err"
                      THEN [status |-> "err", layers |-> << >>]
                      ELSE create_layers_from_front(width, height, tmodel, i + 1,
                                                    <<layer.layer>> \o out)

\* the outer loop, lines 133-142, from layer i on
RECURSIVE create_layers_from(_, _, _, _, _)
create_layers_from(width, height, tmodel, i, out) ==
    IF i > Len(tmodel)
    THEN [status |-> "ok", layers |-> out]
    ELSE LET placed == place_tiles(width, height, tmodel[i].data, 1,
                                   [c \in 0..(width * height - 1) |-> << >>])
         IN  IF placed.status = "panic"
             THEN [status |-> "panic", layers |-> << >>]
             ELSE LET layer == LayerNew(width, height, tmodel[i].id, placed.tiles)
                  IN  IF layer.status = "err"
                      THEN [status |-> "err", layers |-> << >>]
                      ELSE create_layers_from(width, height, tmodel, i + 1,
                                              Append(out, layer.layer))

create_layers(width, height, tmodel) ==
    create_layers_from(width, height, tmodel, 1, << >>)

(***************************************************************************)
(* ReproducibleRandom: the state of the source is what it was seeded with  *)
(* (a tape of raw values, read cyclically) and the number of draws made.   *)
(* Equal states give equal draws.                                          *)
(***************************************************************************)
RawValues == {0, 1, 2, 3}

RandNew(tape) == [tape |-> tape, pos |-> 0]

\* rand.gen(low, high): a value in low..high-1
RandGen(rand, low, high) ==
    low + (rand.tape[(rand.pos % Len(rand.tape)) + 1] % (high - low))

RandNext(rand) == [rand EXCEPT !.pos = @ + 1]

(***************************************************************************)
(* Maps (HashMap): functions with a finite domain; they are only looked    *)
(* up, never iterated.                                                     *)
(***************************************************************************)
EmptyMap == [k \in {} |-> None]

MapPut(m, key, value) ==
    [k \in (DOMAIN m) \cup {key} |-> IF k = key THEN value ELSE m[k]]

(***************************************************************************)
(* WeightedList::pick_index: a draw in proportion to the weights, visited  *)
(* in list order; no selection (and no draw) for an empty or all-zero      *)
(* list.  Indices are 0-based as in the code.                              *)
(***************************************************************************)
TotalWeight(kinds) ==
    LET RECURSIVE Sum(_)
        Sum(i) == IF i = 0 THEN 0 ELSE kinds[i].weight + Sum(i - 1)
    IN  Sum(Len(kinds))

RECURSIVE IndexAt(_, _, _)
IndexAt(kinds, i, roll) ==
    IF roll < kinds[i].weight THEN i - 1
    ELSE IndexAt(kinds, i + 1, roll - kinds[i].weight)

pick_index(kinds, rand) ==
    IF TotalWeight(kinds) = 0
    THEN [index |-> None, rand |-> rand]
    ELSE [index |-> Some(IndexAt(kinds, 1, RandGen(rand, 0, TotalWeight(kinds)))),
          rand |-> RandNext(rand)]

(***************************************************************************)
(* Maze: a region grid; a cell is Wall (no region), or a Room or Corridor  *)
(* cell of a region.                                                       *)
(***************************************************************************)
\* TileKind
WallCell == [kind |-> "Wall"]
RoomCell(r) == [kind |-> "Room", region |-> r]
CorridorCell(r) == [kind |-> "Corridor", region |-> r]

MazeCells(w, h) == (0..(w - 1)) \X (0..(h - 1))

MazeNew(w, h) ==
    [width |-> w, height |-> h, cells |-> [c \in MazeCells(w, h) |-> WallCell]]

InMaze(mz, x, y) == <<x, y>> \in DOMAIN mz.cells

\* mz.region(x, y): Option<usize>
MazeRegion(mz, x, y) ==
    IF InMaze(mz, x, y) /\ mz.cells[<<x, y>>].kind # "Wall"
    THEN Some(mz.cells[<<x, y>>].region)
    ELSE None

\* Option<TileKind> of a cell: None out of range
MazeTile(mz, x, y) ==
    IF InMaze(mz, x, y) THEN Some(mz.cells[<<x, y>>]) ELSE None

\* mz.neighbors(x, y): [self, N, E, S, W]
MazeNeighbors(mz, x, y) ==
    [i \in 0..4 |->
        CASE i = 0 -> MazeTile(mz, x, y)
          [] i = 1 -> MazeTile(mz, x, y - 1)
          [] i = 2 -> MazeTile(mz, x + 1, y)
          [] i = 3 -> MazeTile(mz, x, y + 1)
          [] i = 4 -> MazeTile(mz, x - 1, y)]

\* TileIter::simple(width, height): the k-th point, rows first
IterPoint(w, k) == Point(k % w, k \div w)

(***************************************************************************)
(* GenModel and the walls of its TilesModel.                               *)
(***************************************************************************)
\* the points of model.tiles(): every grid position of the area
TilePoints(gw, gh, width, height) ==
    {<<x, y>> \in (0..(width - 1)) \X (0..(height - 1)) : x % gw = 0 /\ y % gh = 0}

TilesModelNew(gw, gh, width, height) ==
    [grid_width |-> gw, grid_height |-> gh,
     walls |-> [p \in TilePoints(gw, gh, width, height) |->
                   [elev |-> 0, kind |-> None]],
     terrain |-> None,
     tiles |-> EmptyTiles]

\* GenModel::new(width, height, rand, grid_width, grid_height)
GenModelNew(width, height, rand, gen_gw, gen_gh, gw, gh) ==
    [model |-> TilesModelNew(gw, gh, width, height),
     area_width |-> width, area_height |-> height,
     total_grid_size |-> Point(gen_gw * gw, gen_gh * gh),
     rand |-> rand,
     region_overfill_edges |-> EmptyMap]

region_size(gm) ==
    Point(gm.area_width \div gm.total_grid_size.x,
          gm.area_height \div gm.total_grid_size.y)

to_region_coords(gm, x, y) ==
    Point(x \div gm.total_grid_size.x, y \div gm.total_grid_size.y)

from_region_coords(gm, x, y) ==
    Point(x * gm.total_grid_size.x, y * gm.total_grid_size.y)

\* TilesModel::set_wall for a set of points at once; a point off the grid
\* is ignored
SetWalls(tm, points, elev, kind) ==
    [tm EXCEPT !.walls = [p \in DOMAIN tm.walls |->
        IF p \in points THEN [elev |-> elev, kind |-> kind] ELSE tm.walls[p]]]

(***************************************************************************)
(* Wall carving: is_rough_edge, carve_wall, pick_wall_kind, add_walls.     *)
(***************************************************************************)
IsKind(tile, kind) == tile # None /\ Unwrap(tile).kind = kind

\* is_rough_edge that compares the choice with the index for a Room too
is_rough_edge_chosen(neighbors, index, edge_choice) ==
    IF ~IsKind(neighbors[index], "Wall") THEN FALSE
    ELSE IF IsKind(neighbors[0], "Room") \/ IsKind(neighbors[0], "Corridor")
         THEN edge_choice # None /\ Unwrap(edge_choice) = index
    ELSE FALSE

\* is_rough_edge that treats a Corridor as it treats a Room
is_rough_edge_any(neighbors, index, edge_choice) ==
    IF ~IsKind(neighbors[index], "Wall") THEN FALSE
    ELSE IF IsKind(neighbors[0], "Room") \/ IsKind(neighbors[0], "Corridor")
         THEN edge_choice # None
    ELSE FALSE

\* is_rough_edge without the test of line 280 that the neighbour is a Wall
is_rough_edge_open(neighbors, index, edge_choice) ==
    IF IsKind(neighbors[0], "Room") THEN edge_choice # None
    ELSE IF IsKind(neighbors[0], "Corridor")
         THEN edge_choice # None /\ Unwrap(edge_choice) = index
    ELSE FALSE

\* lines 278-297
is_rough_edge(neighbors, index, edge_choice) ==
    IF ~IsKind(neighbors[index], "Wall") THEN FALSE
    ELSE IF IsKind(neighbors[0], "Room") THEN edge_choice # None
    ELSE IF IsKind(neighbors[0], "Corridor")
         THEN edge_choice # None /\ Unwrap(edge_choice) = index
    ELSE FALSE

\* lines 202-220: the edge choice of one occurrence of a cell, with the
\* random source and the overfill memo as it leaves them.  The argument of
\* or_insert is evaluated before the entry is looked up, so the second draw
\* is made whether or not the region has an entry.
edge_choice_of(gen, gm, neighbors) ==
    LET roll == RandGen(gm.rand, 1, 101)
        rand1 == RandNext(gm.rand)
        edge == RandGen(rand1, 1, 5)
        rand2 == RandNext(rand1)
        edges == gm.region_overfill_edges
    IN  IF IsKind(neighbors[0], "Corridor")
        THEN LET region == Unwrap(neighbors[0]).region
             IN  IF roll < gen.room_params.corridor_edge_overfill_chance
                 THEN IF region \in DOMAIN edges
                      THEN [choice |-> Some(edges[region]), rand |-> rand2,
                            edges |-> edges]
                      ELSE [choice |-> Some(edge), rand |-> rand2,
                            edges |-> MapPut(edges, region, edge)]
                 ELSE [choice |-> None, rand |-> rand1, edges |-> edges]
        ELSE IF IsKind(neighbors[0], "Room")
        THEN IF roll < gen.room_params.room_edge_overfill_chance
             THEN [choice |-> Some(edge), rand |-> rand2, edges |-> edges]
             ELSE [choice |-> None, rand |-> rand1, edges |-> edges]
        ELSE [choice |-> None, rand |-> gm.rand, edges |-> edges]

\* (step..max - step).step_by(step)
StepRange(step, max) == {v \in step..(max - step - 1) : (v - step) % step = 0}

\* carve_wall with each corner tested against one of its two edges only
carve_points_corner(neighbors, edge_choice, offset, step, max) ==
    LET rough(i) == is_rough_edge(neighbors, i, edge_choice)
        xs == StepRange(step.x, max.x)
        ys == StepRange(step.y, max.y)
        right == offset.x + max.x - step.x
        bottom == offset.y + max.y - step.y
    IN  (IF ~rough(1) THEN {<<x + offset.x, offset.y>> : x \in xs} ELSE {})
        \cup (IF ~rough(2) THEN {<<right, y + offset.y>> : y \in ys} ELSE {})
        \cup (IF ~rough(3) THEN {<<x + offset.x, bottom>> : x \in xs} ELSE {})
        \cup (IF ~rough(4) THEN {<<offset.x, y + offset.y>> : y \in ys} ELSE {})
        \cup (IF ~rough(1) THEN {<<right, offset.y>>} ELSE {})
        \cup (IF ~rough(2) THEN {<<right, bottom>>} ELSE {})
        \cup (IF ~rough(3) THEN {<<offset.x, bottom>>} ELSE {})
        \cup (IF ~rough(4) THEN {<<offset.x, offset.y>>} ELSE {})
        \cup {<<x + offset.x, y + offset.y>> : x \in xs, y \in ys}

\* carve_wall without its last loop, the one that carves the centre
carve_points_hollow(neighbors, edge_choice, offset, step, max) ==
    LET rough(i) == is_rough_edge(neighbors, i, edge_choice)
        xs == StepRange(step.x, max.x)
        ys == StepRange(step.y, max.y)
        right == offset.x + max.x - step.x
        bottom == offset.y + max.y - step.y
    IN  (IF ~rough(1) THEN {<<x + offset.x, offset.y>> : x \in xs} ELSE {})
        \cup (IF ~rough(2) THEN {<<right, y + offset.y>> : y \in ys} ELSE {})
        \cup (IF ~rough(3) THEN {<<x + offset.x, bottom>> : x \in xs} ELSE {})
        \cup (IF ~rough(4) THEN {<<offset.x, y + offset.y>> : y \in ys} ELSE {})
        \cup (IF ~rough(1) /\ ~rough(2) THEN {<<right, offset.y>>} ELSE {})
        \cup (IF ~rough(2) /\ ~rough(3) THEN {<<right, bottom>>} ELSE {})
        \cup (IF ~rough(3) /\ ~rough(4) THEN {<<offset.x, bottom>>} ELSE {})
        \cup (IF ~rough(4) /\ ~rough(1) THEN {<<offset.x, offset.y>>} ELSE {})

\* lines 222-274: the points carve_wall sets, given the edge choice
carve_points(neighbors, edge_choice, offset, step, max) ==
    LET rough(i) == is_rough_edge(neighbors, i, edge_choice)
        xs == StepRange(step.x, max.x)
        ys == StepRange(step.y, max.y)
        right == offset.x + max.x - step.x
        bottom == offset.y + max.y - step.y
    IN  (IF ~rough(1) THEN {<<x + offset.x, offset.y>> : x \in xs} ELSE {})
        \cup (IF ~rough(2) THEN {<<right, y + offset.y>> : y \in ys} ELSE {})
        \cup (IF ~rough(3) THEN {<<x + offset.x, bottom>> : x \in xs} ELSE {})
        \cup (IF ~rough(4) THEN {<<offset.x, y + offset.y>> : y \in ys} ELSE {})
        \cup (IF ~rough(1) /\ ~rough(2) THEN {<<right, offset.y>>} ELSE {})
        \cup (IF ~rough(2) /\ ~rough(3) THEN {<<right, bottom>>} ELSE {})
        \cup (IF ~rough(3) /\ ~rough(4) THEN {<<offset.x, bottom>>} ELSE {})
        \cup (IF ~rough(4) /\ ~rough(1) THEN {<<offset.x, offset.y>>} ELSE {})
        \cup {<<x + offset.x, y + offset.y>> : x \in xs, y \in ys}

\* lines 224-246: the border tiles of edge i of the coarse cell c, corners left out
EdgeTiles(gm, c, i) ==
    LET offset == from_region_coords(gm, c[1], c[2])
        step == Point(gm.model.grid_width, gm.model.grid_height)
        max == gm.total_grid_size
        xs == StepRange(step.x, max.x)
        ys == StepRange(step.y, max.y)
    IN  CASE i = 1 -> {<<x + offset.x, offset.y>> : x \in xs}
          [] i = 2 -> {<<offset.x + max.x - step.x, y + offset.y>> : y \in ys}
          [] i = 3 -> {<<x + offset.x, offset.y + max.y - step.y>> : x \in xs}
          [] i = 4 -> {<<offset.x, y + offset.y>> : y \in ys}

\* lines 199-275
carve_wall(gen, gm, neighbors, offset, step, max, elev, wall_kind) ==
    LET ec == edge_choice_of(gen, gm, neighbors)
    IN  [gm EXCEPT
            !.rand = ec.rand,
            !.region_overfill_edges = ec.edges,
            !.model = SetWalls(@, carve_points(neighbors, ec.choice, offset, step, max),
                               elev, wall_kind)]

\* pick_wall_kind without the early return of line 152
pick_wall_kind_always(gen, st, invert, region) ==
    IF region \in DOMAIN st.mapped
    THEN [elev |-> 1, wall_kind |-> st.mapped[region], st |-> st]
    ELSE LET pick == pick_index(gen.wall_kinds.kinds, st.model.rand)
         IN  [elev |-> 1, wall_kind |-> pick.index,
              st |-> [model |-> [st.model EXCEPT !.rand = pick.rand],
                      mapped |-> MapPut(st.mapped, region, pick.index)]]

\* pick_wall_kind that memoizes a pick only when it selected a kind
pick_wall_kind_somes(gen, st, invert, region) ==
    IF ~invert
    THEN [elev |-> 0, wall_kind |-> None, st |-> st]
    ELSE IF region \in DOMAIN st.mapped
    THEN [elev |-> 1, wall_kind |-> st.mapped[region], st |-> st]
    ELSE LET pick == pick_index(gen.wall_kinds.kinds, st.model.rand)
         IN  [elev |-> 1, wall_kind |-> pick.index,
              st |-> [model |-> [st.model EXCEPT !.rand = pick.rand],
                      mapped |-> IF pick.index = None THEN st.mapped
                                 ELSE MapPut(st.mapped, region, pick.index)]]

\* pick_wall_kind without the contains_key test: every occurrence picks anew
pick_wall_kind_nomemo(gen, st, invert, region) ==
    IF ~invert
    THEN [elev |-> 0, wall_kind |-> None, st |-> st]
    ELSE LET pick == pick_index(gen.wall_kinds.kinds, st.model.rand)
         IN  [elev |-> 1, wall_kind |-> pick.index,
              st |-> [model |-> [st.model EXCEPT !.rand = pick.rand],
                      mapped |-> MapPut(st.mapped, region, pick.index)]]

\* lines 147-161; st is the GenModel with add_walls' local map
pick_wall_kind(gen, st, invert, region) ==
    IF ~invert
    THEN [elev |-> 0, wall_kind |-> None, st |-> st]
    ELSE IF region \in DOMAIN st.mapped
    THEN [elev |-> 1, wall_kind |-> st.mapped[region], st |-> st]
    ELSE LET pick == pick_index(gen.wall_kinds.kinds, st.model.rand)
         IN  [elev |-> 1, wall_kind |-> pick.index,
              st |-> [model |-> [st.model EXCEPT !.rand = pick.rand],
                      mapped |-> MapPut(st.mapped, region, pick.index)]]

\* add_walls that picks its wall kind before looking at the mode
add_walls_begin_pick(gen, st) ==
    LET gm == st.model
        all == DOMAIN gm.model.walls
        pick == pick_index(gen.wall_kinds.kinds, gm.rand)
    IN  IF gen.room_params.invert
        THEN [model |-> [gm EXCEPT !.rand = pick.rand,
                                   !.model = SetWalls(@, all, 0, None)],
              mapped |-> EmptyMap]
        ELSE [model |-> [gm EXCEPT !.rand = pick.rand,
                                   !.model = SetWalls(@, all, 1, pick.index)],
              mapped |-> EmptyMap]

\* add_walls with a map that outlives the call instead of line 177's new one
add_walls_begin_stale(gen, st) ==
    LET gm == st.model
        all == DOMAIN gm.model.walls
    IN  IF gen.room_params.invert
        THEN [model |-> [gm EXCEPT !.model = SetWalls(@, all, 0, None)],
              mapped |-> st.mapped]
        ELSE LET pick == pick_index(gen.wall_kinds.kinds, gm.rand)
             IN  [model |-> [gm EXCEPT !.rand = pick.rand,
                                       !.model = SetWalls(@, all, 1, pick.index)],
                  mapped |-> st.mapped]

\* add_walls whose wall fill drops the picked kind
add_walls_begin_nokind(gen, st) ==
    LET gm == st.model
        all == DOMAIN gm.model.walls
    IN  IF gen.room_params.invert
        THEN [model |-> [gm EXCEPT !.model = SetWalls(@, all, 0, None)],
              mapped |-> EmptyMap]
        ELSE LET pick == pick_index(gen.wall_kinds.kinds, gm.rand)
             IN  [model |-> [gm EXCEPT !.rand = pick.rand,
                                       !.model = SetWalls(@, all, 1, None)],
                  mapped |-> EmptyMap]

\* lines 163-177: the initial fill, and the empty map of the carving loop
add_walls_begin(gen, st) ==
    LET gm == st.model
        all == DOMAIN gm.model.walls
    IN  IF gen.room_params.invert
        THEN [model |-> [gm EXCEPT !.model = SetWalls(@, all, 0, None)],
              mapped |-> EmptyMap]
        ELSE LET pick == pick_index(gen.wall_kinds.kinds, gm.rand)
             IN  [model |-> [gm EXCEPT !.rand = pick.rand,
                                          !.model = SetWalls(@, all, 1, pick.index)],
                  mapped |-> EmptyMap]

\* the body of the carving loop without the `continue` of line 183: a cell
\* without a region is carved as a cell of region 0
add_walls_cell_all(gen, st, mz, k) ==
    LET p_room == IterPoint(mz.width, k)
        found == MazeRegion(mz, p_room.x, p_room.y)
        region == IF found = None THEN Some(0) ELSE found
        neighbors == MazeNeighbors(mz, p_room.x, p_room.y)
        picked == pick_wall_kind(gen, st, gen.room_params.invert, Unwrap(region))
        gm == picked.st.model
        offset == from_region_coords(gm, p_room.x, p_room.y)
        step == Point(gm.model.grid_width, gm.model.grid_height)
    IN  [model |-> carve_wall(gen, gm, neighbors, offset, step,
                              gm.total_grid_size, picked.elev, picked.wall_kind),
         mapped |-> picked.st.mapped]

\* lines 181-196: the body of the carving loop for the k-th mz cell
add_walls_cell(gen, st, mz, k) ==
    LET p_room == IterPoint(mz.width, k)
        region == MazeRegion(mz, p_room.x, p_room.y)
    IN  IF region = None THEN st
        ELSE LET neighbors == MazeNeighbors(mz, p_room.x, p_room.y)
                 picked == pick_wall_kind(gen, st, gen.room_params.invert,
                                          Unwrap(region))
                 gm == picked.st.model
                 offset == from_region_coords(gm, p_room.x, p_room.y)
                 step == Point(gm.model.grid_width, gm.model.grid_height)
             IN  [model |-> carve_wall(gen, gm, neighbors, offset, step,
                                       gm.total_grid_size, picked.elev,
                                       picked.wall_kind),
                  mapped |-> picked.st.mapped]

(***************************************************************************)
(* The collaborators of generate(): Maze::generate and the content passes. *)
(* Each is a function of its inputs and of the random source.              *)
(***************************************************************************)
\* the region ids the mz hands out: one room region, one corridor region
RoomRegion == 1
CorridorRegion == 2

DrawnCell(d) ==
    CASE d = 0 -> WallCell
      [] d = 1 -> RoomCell(RoomRegion)
      [] OTHER -> CorridorCell(CorridorRegion)

\* the rand after n more draws
RECURSIVE RandSkip(_, _)
RandSkip(rand, n) == IF n = 0 THEN rand ELSE RandSkip(RandNext(rand), n - 1)

\* Maze::generate(room_params, rand, open_locs): fails when the rooms asked
\* for do not fit the grid; draws every cell; an open location is never
\* left a wall
maze_generate(mz, room_params, rand, locs) ==
    LET n == mz.width * mz.height
        drawn(k) == DrawnCell(RandGen(RandSkip(rand, k), 0, 3))
        isOpen(c) == \E i \in 1..Len(locs) : locs[i] = Point(c[1], c[2])
    IN  IF room_params.min_rooms > n
        THEN [status |-> "err", maze |-> mz, rand |-> rand]
        ELSE [status |-> "ok",
              maze |-> [mz EXCEPT !.cells = [c \in DOMAIN mz.cells |->
                  LET d == drawn(c[1] + c[2] * mz.width)
                  IN  IF isOpen(c) /\ d.kind = "Wall"
                      THEN CorridorCell(CorridorRegion) ELSE d]],
              rand |-> RandSkip(rand, n)]

\* TerrainGen::generate: picks the base terrain
terrain_generate(m) ==
    [m EXCEPT !.model.terrain = Some(RandGen(m.rand, 0, 2)),
              !.rand = RandNext(m.rand)]

WallTile(kind) == [layer |-> "walls", kind |-> "wall", index |-> kind]
TerrainTile(kind) == [layer |-> "terrain", kind |-> "terrain", index |-> kind]
AddedTile == [layer |-> "terrain", kind |-> "added", index |-> 0]
FeatureTile == [layer |-> "walls", kind |-> "feature", index |-> 0]

\* check_add_wall_border, check_add_terrain and check_add_terrain_border at
\* one point: a wall tile where the point has a wall kind, a terrain tile of
\* the base terrain; a uniform terrain has no border
check_add(tm, p) ==
    LET w == tm.walls[p]
        t1 == IF w.kind # None
              THEN TilesAdd(tm.tiles, WallTile(Unwrap(w.kind)), p[1], p[2])
              ELSE tm.tiles
        t2 == IF tm.terrain # None
              THEN TilesAdd(t1, TerrainTile(Unwrap(tm.terrain)), p[1], p[2])
              ELSE t1
    IN  [tm EXCEPT !.tiles = t2]

\* the k-th point of model.tiles(), rows first
TilePointAt(tm, width, k) ==
    LET cols == (width + tm.grid_width - 1) \div tm.grid_width
    IN  <<(k % cols) * tm.grid_width, (k \div cols) * tm.grid_height>>

RECURSIVE check_add_from(_, _, _)
check_add_from(tm, width, k) ==
    IF k >= Cardinality(DOMAIN tm.walls) THEN tm
    ELSE check_add_from(check_add(tm, TilePointAt(tm, width, k)), width, k + 1)

RECURSIVE add_tiles_from(_, _, _)
add_tiles_from(tiles, toadd, i) ==
    IF i > Len(toadd) THEN tiles
    ELSE add_tiles_from(TilesAdd(tiles, toadd[i].tile, toadd[i].x, toadd[i].y),
                        toadd, i + 1)

\* FeatureGen::generate: places one feature at a drawn grid point
feature_generate(m, snapshot, fault) ==
    IF fault = "features"
    THEN [status |-> "err", model |-> m]
    ELSE LET k == RandGen(m.rand, 0, Cardinality(DOMAIN m.model.walls))
             p == TilePointAt(m.model, m.area_width, k)
         IN  [status |-> "ok",
              model |-> [m EXCEPT !.rand = RandNext(m.rand),
                                  !.model.tiles = TilesAdd(@, FeatureTile, p[1], p[2])]]

\* PropGen::generate and EncounterGen::generate: one placement per pass at
\* a drawn grid point
RECURSIVE place_passes(_, _, _, _)
place_passes(m, id, passes, out) ==
    IF passes = 0 THEN [status |-> "ok", model |-> m, placed |-> out]
    ELSE LET k == RandGen(m.rand, 0, Cardinality(DOMAIN m.model.walls))
             p == TilePointAt(m.model, m.area_width, k)
         IN  place_passes([m EXCEPT !.rand = RandNext(m.rand)], id, passes - 1,
                          Append(out, [id |-> id, location |-> Point(p[1], p[2])]))

prop_generate(m, snapshot, passes, fault) ==
    IF fault = "props"
    THEN [status |-> "err", model |-> m, placed |-> << >>]
    ELSE place_passes(m, "prop", passes, << >>)

encounter_generate(m, snapshot, passes, fault) ==
    IF fault = "encounters"
    THEN [status |-> "err", model |-> m, placed |-> << >>]
    ELSE place_passes(m, "encounter", passes, << >>)

(***************************************************************************)
(* AreaGenerator::generate, stage by stage.                                *)
(***************************************************************************)
\* the tile grid of the TilesModel (model.model.grid_width, grid_height)
TileGrid == Point(1, 1)

\* the from points handed on without to_region_coords
open_locs_raw(gm, transitions) ==
    [i \in 1..Len(transitions) |->
        Point(transitions[i].from.x, transitions[i].from.y)]

\* lines 81-84: the region coordinates of every transition's from point
open_locs_of(gm, transitions) ==
    [i \in 1..Len(transitions) |->
        to_region_coords(gm, transitions[i].from.x, transitions[i].from.y)]

\* generate with the prop pass moved before the feature pass
NextStageSwapped(stage) ==
    CASE stage = "maze" -> "walls"
      [] stage = "walls" -> "terrain"
      [] stage = "terrain" -> "tiles"
      [] stage = "tiles" -> "snapshot"
      [] stage = "snapshot" -> "props"
      [] stage = "props" -> "features"
      [] stage = "features" -> "encounters"
      [] stage = "encounters" -> "final"
      [] stage = "final" -> "returned"

\* generate with the snapshot taken before the tiles are added to the model
NextStageEarly(stage) ==
    CASE stage = "maze" -> "walls"
      [] stage = "walls" -> "terrain"
      [] stage = "terrain" -> "snapshot"
      [] stage = "snapshot" -> "tiles"
      [] stage = "tiles" -> "features"
      [] stage = "features" -> "props"
      [] stage = "props" -> "encounters"
      [] stage = "encounters" -> "final"
      [] stage = "final" -> "returned"

\* the order of the stages in the body of generate, lines 74-127
NextStage(stage) ==
    CASE stage = "maze" -> "walls"
      [] stage = "walls" -> "terrain"
      [] stage = "terrain" -> "tiles"
      [] stage = "tiles" -> "snapshot"
      [] stage = "snapshot" -> "features"
      [] stage = "features" -> "props"
      [] stage = "props" -> "encounters"
      [] stage = "encounters" -> "final"
      [] stage = "final" -> "returned"

\* a stage whose Err is dropped instead of returned
PropagateLenient(stage, status) ==
    IF status = "panic" THEN "panicked" ELSE NextStage(stage)

\* the ? after a fallible stage: an Err returns from generate at once; a
\* panic unwinds out of it
Propagate(stage, status) ==
    IF status = "ok" THEN NextStage(stage)
    ELSE IF status = "panic" THEN "panicked"
    ELSE "returned"

ErrorOf(stage) == [status |-> "err", stage |-> stage]

\* what a stage that ended with status leaves in pc, trace and result
Finish(stage, status, output) ==
    /\ trace' = Append(trace, stage)
    /\ pc' = Propagate(stage, status)
    /\ result' = IF status = "err" THEN ErrorOf(stage)
                 ELSE IF status = "ok" /\ stage = "final"
                      THEN [status |-> "ok", output |-> output]
                 ELSE result

(***************************************************************************)
(* The generators and the arguments tried.                                 *)
(***************************************************************************)
OneKind == <<[weight |-> 1, id |-> "stone"]>>
TwoKinds == <<[weight |-> 1, id |-> "stone"], [weight |-> 1, id |-> "brick"]>>
ZeroKinds == <<[weight |-> 0, id |-> "stone"]>>

\* an AreaGenerator as AreaGenerator::new builds it, lines 46-57
GeneratorOf(invert, kinds, room_chance, corridor_chance) ==
    [id |-> "dungeon",
     wall_kinds |-> [kinds |-> kinds],
     grid_width |-> 3, grid_height |-> 3,
     room_params |-> [invert |-> invert, min_rooms |-> 3,
                      room_edge_overfill_chance |-> room_chance,
                      corridor_edge_overfill_chance |-> corridor_chance]]

Generators ==
    {GeneratorOf(invert, kinds, 3, 3) : invert \in BOOLEAN, kinds \in {OneKind, TwoKinds}}

Tapes == [1..TapeLen -> RawValues]

Sizes == {<<6, 6>>, <<7, 6>>, <<3, 6>>}

TransitionLists ==
    {<< >>, <<[from |-> Point(0, 0)]>>, <<[from |-> Point(4, 5)]>>,
     <<[from |-> Point(3, 2)], [from |-> Point(1, 4)]>>}

TilesToAdd ==
    {<< >>} \cup {<<[tile |-> AddedTile, x |-> c[1], y |-> c[2]]>> :
                    c \in {<<1, 1>>, <<6, 0>>, <<-1, 0>>, <<-1, 1>>}}

Faults == {"none", "features", "props", "encounters"}

ArgsOf(size, tape, transitions, toadd, passes, fault) ==
    [width |-> size[1], height |-> size[2], tape |-> tape,
     transitions |-> transitions, tiles_to_add |-> toadd,
     passes |-> passes, fault |-> fault]

\* the arguments of a call: every tape, and one argument at a time away from
\* the plain call (6 x 6, no transition, no tile to add, one pass, no fault)
ArgSet ==
    UNION {
        {ArgsOf(size, tape, << >>, << >>, 1, "none") : size \in Sizes}
        \cup {ArgsOf(<<6, 6>>, tape, tr, << >>, 1, "none") : tr \in TransitionLists}
        \cup {ArgsOf(<<6, 6>>, tape, << >>, toadd, 1, "none") : toadd \in TilesToAdd}
        \cup {ArgsOf(<<6, 6>>, tape, << >>, << >>, passes, "none") : passes \in {0, 2}}
        \cup {ArgsOf(<<6, 6>>, tape, << >>, << >>, 1, fault) : fault \in Faults}
        : tape \in Tapes}

\* lines 68-84
Generate ==
    /\ pc = "idle"
    /\ calls < MaxCalls
    /\ \E a \in (IF calls = 0 THEN ArgSet ELSE {first.args}) :
          LET gm == GenModelNew(a.width, a.height, RandNew(a.tape),
                                generator.grid_width, generator.grid_height,
                                TileGrid.x, TileGrid.y)
          IN  /\ args' = a
              /\ model' = gm
              /\ maze' = MazeNew(region_size(gm).x, region_size(gm).y)
              /\ open_locs' = open_locs_of(gm, a.transitions)
    /\ pc' = "maze"
    /\ trace' = << >>
    /\ cell' = 0
    /\ layers' = << >>
    /\ props' = << >>
    /\ encounters' = << >>
    /\ result' = NoResult
    /\ UNCHANGED <<gsVars, cwVars, clVars, newVars, generator, mapped, calls, first>>

\* line 85
MazeGenerate ==
    /\ pc = "maze"
    /\ LET r == maze_generate(maze, generator.room_params, model.rand, open_locs)
       IN  /\ maze' = r.maze
           /\ model' = [model EXCEPT !.rand = r.rand]
           /\ Finish("maze", r.status, None)
    /\ UNCHANGED <<gsVars, cwVars, clVars, newVars, generator, args, open_locs, mapped, cell, layers, props,
                   encounters, calls, first>>

\* line 88, add_walls up to its carving loop
AddWallsBegin ==
    /\ pc = "walls"
    /\ LET r == add_walls_begin(generator, [model |-> model, mapped |-> mapped])
       IN  /\ model' = r.model
           /\ mapped' = r.mapped
    /\ cell' = 0
    /\ pc' = "carve"
    /\ UNCHANGED <<gsVars, cwVars, clVars, newVars, generator, args, trace, maze, open_locs, layers, props,
                   encounters, result, calls, first>>

\* one turn of the carving loop
AddWallsCell ==
    /\ pc = "carve"
    /\ cell < maze.width * maze.height
    /\ LET r == add_walls_cell(generator, [model |-> model, mapped |-> mapped],
                               maze, cell)
       IN  /\ model' = r.model
           /\ mapped' = r.mapped
    /\ cell' = cell + 1
    /\ UNCHANGED <<gsVars, cwVars, clVars, newVars, generator, args, pc, trace, maze, open_locs, layers, props,
                   encounters, result, calls, first>>

\* the carving loop ends and add_walls returns
AddWallsEnd ==
    /\ pc = "carve"
    /\ cell = maze.width * maze.height
    /\ Finish("walls", "ok", None)
    /\ UNCHANGED <<gsVars, cwVars, clVars, newVars, generator, args, model, maze, open_locs, mapped, cell, layers,
                   props, encounters, calls, first>>

\* lines 90-92
TerrainGenerate ==
    /\ pc = "terrain"
    /\ model' = terrain_generate(model)
    /\ Finish("terrain", "ok", None)
    /\ UNCHANGED <<gsVars, cwVars, clVars, newVars, generator, args, maze, open_locs, mapped, cell, layers, props,
                   encounters, calls, first>>

\* lines 94-102
AddTiles ==
    /\ pc = "tiles"
    /\ model' = [model EXCEPT !.model =
          check_add_from([@ EXCEPT !.tiles = add_tiles_from(@, args.tiles_to_add, 1)],
                         args.width, 0)]
    /\ Finish("tiles", "ok", None)
    /\ UNCHANGED <<gsVars, cwVars, clVars, newVars, generator, args, maze, open_locs, mapped, cell, layers, props,
                   encounters, calls, first>>

\* line 106
PreGenLayers ==
    /\ pc = "snapshot"
    /\ LET r == create_layers(args.width, args.height, model.model.tiles)
       IN  /\ layers' = r.layers
           /\ Finish("snapshot", r.status, None)
    /\ UNCHANGED <<gsVars, cwVars, clVars, newVars, generator, args, model, maze, open_locs, mapped, cell, props,
                   encounters, calls, first>>

\* lines 109-110
FeatureGenerate ==
    /\ pc = "features"
    /\ LET r == feature_generate(model, layers, args.fault)
       IN  /\ model' = r.model
           /\ Finish("features", r.status, None)
    /\ UNCHANGED <<gsVars, cwVars, clVars, newVars, generator, args, maze, open_locs, mapped, cell, layers, props,
                   encounters, calls, first>>

\* lines 113-114
PropGenerate ==
    /\ pc = "props"
    /\ LET r == prop_generate(model, layers, args.passes, args.fault)
       IN  /\ model' = r.model
           /\ props' = r.placed
           /\ Finish("props", r.status, None)
    /\ UNCHANGED <<gsVars, cwVars, clVars, newVars, generator, args, maze, open_locs, mapped, cell, layers,
                   encounters, calls, first>>

\* lines 117-118
EncounterGenerate ==
    /\ pc = "encounters"
    /\ LET r == encounter_generate(model, layers, args.passes, args.fault)
       IN  /\ model' = r.model
           /\ encounters' = r.placed
           /\ Finish("encounters", r.status, None)
    /\ UNCHANGED <<gsVars, cwVars, clVars, newVars, generator, args, maze, open_locs, mapped, cell, layers, props,
                   calls, first>>

\* lines 121-127
FinalLayers ==
    /\ pc = "final"
    /\ LET r == create_layers(args.width, args.height, model.model.tiles)
       IN  Finish("final", r.status,
                  [layers |-> r.layers, props |-> props, encounters |-> encounters])
    /\ UNCHANGED <<gsVars, cwVars, clVars, newVars, generator, args, model, maze, open_locs, mapped, cell, layers,
                   props, encounters, calls, first>>

\* the caller takes the result; the generator is free for the next call
Return ==
    /\ pc = "returned"
    /\ calls' = calls + 1
    /\ first' = IF calls = 0
                THEN [status |-> "set", args |-> args, result |-> result,
                      rand |-> model.rand]
                ELSE first
    /\ pc' = "idle"
    /\ UNCHANGED <<gsVars, cwVars, clVars, newVars, generator, args, trace, model, maze, open_locs, mapped, cell,
                   layers, props, encounters, result>>

(***************************************************************************)
(* SpecLayers.                                                             *)
(***************************************************************************)
CwIdle ==
    /\ cw_pc = "off"
    /\ cw_in = NoResult
    /\ cw_out = NoResult

\* no GameState: STATE and the other thread-locals as lines 127-134 make them
GsIdle ==
    /\ gs_pc = "off"
    /\ game_state = None
    /\ area_states = << >>
    /\ entities = EmptyMap
    /\ clear_anims = FALSE
    /\ animations = << >>
    /\ anims_to_add = << >>
    /\ gs_obs = NoResult

\* the coordinates tried for a dimension: around both ends of the range
Coords(dim) == {-1, 0, dim - 1, dim}

ClIdle ==
    /\ cl_pc = "off"
    /\ cl_width = 0
    /\ cl_height = 0
    /\ cl_model = EmptyTiles
    /\ cl_out = NoResult

ClInit ==
    /\ cl_pc = "build"
    /\ cl_width \in 1..MaxDim
    /\ cl_height \in 1..MaxDim
    /\ cl_model = EmptyTiles
    /\ cl_out = NoResult

\* a caller adds a tile to the model; the tile is named by its layer and its
\* serial number, so that a tile of the output can be traced to its placement
ClAdd ==
    /\ cl_pc = "build"
    /\ NumPlacements(cl_model) < MaxPlace
    /\ \E id \in LayerIds, x \in Coords(cl_width), y \in Coords(cl_height) :
          cl_model' = TilesAdd(cl_model,
                               [layer |-> id, n |-> NumPlacements(cl_model) + 1], x, y)
    /\ UNCHANGED <<gsVars, cwVars, cl_pc, cl_width, cl_height, cl_out, newVars, genVars>>

ClCreate ==
    /\ cl_pc = "build"
    /\ cl_out' = create_layers(cl_width, cl_height, cl_model)
    /\ cl_pc' = "done"
    /\ UNCHANGED <<gsVars, cwVars, cl_width, cl_height, cl_model, newVars, genVars>>

NewIdle ==
    /\ builder = None
    /\ new_pc = "off"
    /\ new_out = NoResult

CallIdle ==
    /\ args = NoResult
    /\ pc = "off"
    /\ trace = << >>
    /\ model = NoResult
    /\ maze = NoResult
    /\ open_locs = << >>
    /\ mapped = EmptyMap
    /\ cell = 0
    /\ layers = << >>
    /\ props = << >>
    /\ encounters = << >>
    /\ result = NoResult
    /\ calls = 0
    /\ first = NoResult

GenIdle ==
    /\ generator = NoResult
    /\ CallIdle

InitLayers == ClInit /\ NewIdle /\ GenIdle /\ CwIdle /\ GsIdle

NextLayers == ClAdd \/ ClCreate

SpecLayers == InitLayers /\ [][NextLayers]_vars

(***************************************************************************)
(* SpecNew: AreaGenerator::new on a builder whose parameter groups name    *)
(* ids the module may or may not hold.                                     *)
(***************************************************************************)
\* the ids the module resolves (Module::wall_kind and the like)
ModuleIds == {"stone", "brick"}

Resolves(ids) == ids \subseteq ModuleIds

\* the parameter groups in the order new evaluates them: line 43, then the
\* fields of the struct literal, lines 52-56
Groups == <<"wall_kinds", "terrain", "props", "encounters", "features", "transitions">>

GroupIndex(group) == CHOOSE i \in 1..Len(Groups) : Groups[i] = group

\* new with the prop group's failure dropped instead of returned
new_next_lenient(group, resolved) ==
    IF ~resolved /\ group # "props" THEN "failed"
    ELSE IF GroupIndex(group) = Len(Groups) THEN "built"
    ELSE Groups[GroupIndex(group) + 1]

\* WeightedList::new(..)?, TerrainParams::new(..)? and the rest: where new
\* goes after resolving a group
new_next(group, resolved) ==
    IF ~resolved THEN "failed"
    ELSE IF GroupIndex(group) = Len(Groups) THEN "built"
    ELSE Groups[GroupIndex(group) + 1]

\* lines 46-57
BuiltGenerator(b) ==
    [id |-> b.id,
     wall_kinds |-> [kinds |-> b.wall_kinds],
     grid_width |-> b.grid_width, grid_height |-> b.grid_height,
     room_params |-> b.rooms,
     terrain_params |-> b.terrain, prop_params |-> b.props,
     encounter_params |-> b.encounters, feature_params |-> b.features,
     transition_params |-> b.transitions]

GroupChoices == {{}, {"stone"}, {"stone", "ghost"}}

Builders ==
    [id : {"dungeon"}, grid_width : {3}, grid_height : {3},
     rooms : {[invert |-> FALSE, min_rooms |-> 3, room_edge_overfill_chance |-> 3,
               corridor_edge_overfill_chance |-> 3]},
     wall_kinds : GroupChoices, terrain : GroupChoices, props : GroupChoices,
     encounters : GroupChoices, features : GroupChoices, transitions : GroupChoices]

NewInit ==
    /\ builder \in Builders
    /\ new_pc = Groups[1]
    /\ new_out = NoResult

\* one parameter group is resolved against the module
NewResolve ==
    /\ new_pc \in {Groups[i] : i \in 1..Len(Groups)}
    /\ LET ids == builder[new_pc]
           next == new_next(new_pc, Resolves(ids))
       IN  /\ new_pc' = next
           /\ new_out' = CASE next = "failed" ->
                                [status |-> "err", label |-> new_pc,
                                 id |-> CHOOSE id \in ids : id \notin ModuleIds]
                           [] next = "built" ->
                                [status |-> "ok", generator |-> BuiltGenerator(builder)]
                           [] OTHER -> new_out
    /\ UNCHANGED <<gsVars, cwVars, builder, clVars, genVars>>

\* the caller of new holds an AreaGenerator and starts to use it
NewUse ==
    /\ new_pc = "built"
    /\ new_out.status = "ok"
    /\ generator = NoResult
    /\ generator' = new_out.generator
    /\ UNCHANGED <<gsVars, cwVars, newVars, clVars, callVars>>

InitNew == ClIdle /\ NewInit /\ GenIdle /\ CwIdle /\ GsIdle

NextNew == NewResolve \/ NewUse

SpecNew == InitNew /\ [][NextNew]_vars

(***************************************************************************)
(* Spec: generate() called MaxCalls times on one generator, the later      *)
(* calls with the arguments of the first.                                  *)
(***************************************************************************)
Init ==
    /\ ClIdle
    /\ NewIdle
    /\ CwIdle
    /\ GsIdle
    /\ generator \in Generators
    /\ args = NoResult
    /\ pc = "idle"
    /\ trace = << >>
    /\ model = NoResult
    /\ maze = NoResult
    /\ open_locs = << >>
    /\ mapped = EmptyMap
    /\ cell = 0
    /\ layers = << >>
    /\ props = << >>
    /\ encounters = << >>
    /\ result = NoResult
    /\ calls = 0
    /\ first = NoResult

Next ==
    \/ Generate
    \/ MazeGenerate
    \/ AddWallsBegin
    \/ AddWallsCell
    \/ AddWallsEnd
    \/ TerrainGenerate
    \/ AddTiles
    \/ PreGenLayers
    \/ FeatureGenerate
    \/ PropGenerate
    \/ EncounterGenerate
    \/ FinalLayers
    \/ Return

Spec == Init /\ [][Next]_vars

(***************************************************************************)
(* SpecWalls: add_walls on every maze of a 2 x 2 region grid, for every    *)
(* outcome of the draws of each step.                                      *)
(***************************************************************************)
\* a step of add_walls makes at most three draws: one wall-kind pick and
\* the two draws of carve_wall.  The first draw is a pick among at most two
\* kinds or a roll against a chance of 3: the raw values 0 and 3 give both
\* outcomes of either.
FirstDraws == {0, 3}

WallsGenerators ==
    {GeneratorOf(invert, kinds, 3, 3) :
        invert \in BOOLEAN, kinds \in {<< >>, ZeroKinds, OneKind, TwoKinds}}

WallsMazes ==
    {[width |-> 2, height |-> 2, cells |-> cells] :
        cells \in [MazeCells(2, 2) ->
                      {WallCell, RoomCell(RoomRegion), CorridorCell(CorridorRegion)}]}

\* the GenModel with its random source in a state whose next draws are
\* draws, in this order
Reseeded(gm, draws) ==
    [gm EXCEPT !.rand.tape =
        [i \in 1..Len(draws) |->
            draws[((i - 1 - gm.rand.pos) % Len(draws)) + 1]]]

\* every outcome of a step of add_walls; Step(draws) is the step made with
\* the random source about to give draws.  A draw the step does not make is
\* not varied: its value is never read.
StepOutcomes(Step(_), gm) ==
    LET used(r) == r.model.rand.pos - gm.rand.pos
        r0 == Step(<<0, 0, 0>>)
    IN  IF used(r0) = 0 THEN {r0}
        ELSE UNION {
            LET r1 == Step(<<d1, 0, 0>>)
            IN  IF used(r1) <= 1 THEN {r1}
                ELSE UNION {
                    LET r2 == Step(<<d1, d2, 0>>)
                    IN  IF used(r2) <= 2 THEN {r2}
                        ELSE {Step(<<d1, d2, d3>>) : d3 \in RawValues}
                    : d2 \in RawValues}
            : d1 \in FirstDraws}

InitWalls ==
    /\ ClIdle
    /\ NewIdle
    /\ CwIdle
    /\ GsIdle
    /\ generator \in WallsGenerators
    /\ maze \in WallsMazes
    /\ model = GenModelNew(6, 6, RandNew(<<0, 0, 0>>), generator.grid_width,
                           generator.grid_height, TileGrid.x, TileGrid.y)
    /\ pc = "walls"
    /\ args = NoResult
    /\ trace = << >>
    /\ open_locs = << >>
    /\ mapped = EmptyMap
    /\ cell = 0
    /\ layers = << >>
    /\ props = << >>
    /\ encounters = << >>
    /\ result = NoResult
    /\ calls = 0
    /\ first = NoResult

WallsBegin ==
    /\ pc = "walls"
    /\ \E r \in StepOutcomes(
              LAMBDA draws : add_walls_begin(generator,
                  [model |-> Reseeded(model, draws), mapped |-> mapped]), model) :
          /\ model' = Reseeded(r.model, model.rand.tape)
          /\ mapped' = r.mapped
    /\ cell' = 0
    /\ pc' = "carve"
    /\ UNCHANGED <<gsVars, cwVars, clVars, newVars, generator, args, trace, maze, open_locs, layers,
                   props, encounters, result, calls, first>>

WallsCell ==
    /\ pc = "carve"
    /\ cell < maze.width * maze.height
    /\ \E r \in StepOutcomes(
              LAMBDA draws : add_walls_cell(generator,
                  [model |-> Reseeded(model, draws), mapped |-> mapped], maze, cell),
              model) :
          /\ model' = Reseeded(r.model, model.rand.tape)
          /\ mapped' = r.mapped
    /\ cell' = cell + 1
    /\ UNCHANGED <<gsVars, cwVars, clVars, newVars, generator, args, pc, trace, maze, open_locs,
                   layers, props, encounters, result, calls, first>>

WallsEnd ==
    /\ pc = "carve"
    /\ cell = maze.width * maze.height
    /\ pc' = "walled"
    /\ UNCHANGED <<gsVars, cwVars, clVars, newVars, generator, args, trace, model, maze, open_locs,
                   mapped, cell, layers, props, encounters, result, calls, first>>

NextWalls == WallsBegin \/ WallsCell \/ WallsEnd

SpecWalls == InitWalls /\ [][NextWalls]_vars

(***************************************************************************)
(* SpecCarve.                                                              *)
(***************************************************************************)
\* the overfill chances tried, of 100
Chances == {0, 1, 2, 50, 99, 100}

\* the raw values of the source that give the 100 values of gen(1, 101)
RollRaws == 0..99

\* the edges of the cell that have a Wall across them
WallSides == {{}, {2}, {1, 2}, {1, 2, 3, 4}}

\* maze.neighbors of a cell of its own kind with Walls across the edges in
\* sides and cells of its own region across the others
NeighborsOf(self, sides) ==
    [i \in 0..4 |-> IF i \in sides THEN Some(WallCell) ELSE Some(self)]

\* the memo a Corridor occurrence may find: no entry for its region, or one
OverfillMemos ==
    {EmptyMap} \cup {MapPut(EmptyMap, CorridorRegion, e) : e \in {2, 3}}

CarveInputs ==
    {[chance |-> ch, self |-> RoomCell(RoomRegion), sides |-> sides,
      edges |-> EmptyMap] : ch \in Chances, sides \in WallSides}
    \cup {[chance |-> ch, self |-> CorridorCell(CorridorRegion), sides |-> sides,
           edges |-> memo] : ch \in Chances, sides \in WallSides,
                             memo \in OverfillMemos}

\* the GenModel of one coarse cell, all open, its source about to give the
\* tape and its memo as the input has it
CarveModel(in, tape) ==
    [GenModelNew(3, 3, RandNew(tape), 3, 3, TileGrid.x, TileGrid.y)
        EXCEPT !.region_overfill_edges = in.edges]

\* carve_wall on the cell of the input, walls carved in (elevation 1, wall
\* kind 0) as add_walls calls it in invert mode
CarveApplied(in, tape) ==
    LET gm == CarveModel(in, tape)
    IN  carve_wall(GeneratorOf(TRUE, OneKind, in.chance, in.chance), gm,
                   NeighborsOf(in.self, in.sides), Point(0, 0),
                   Point(gm.model.grid_width, gm.model.grid_height),
                   gm.total_grid_size, 1, Some(0))

\* the edges the carved cell shows rough: their border tiles were not set
RoughEdges(gm) ==
    {i \in 1..4 : \A p \in EdgeTiles(gm, <<0, 0>>, i) : gm.model.walls[p].elev # 1}

CarveInit ==
    /\ cw_pc = "ready"
    /\ cw_in \in CarveInputs
    /\ cw_out = NoResult

\* carve_wall runs once; the roll and the edge index are what the source
\* gives to the first and to the second draw
CarveOnce ==
    /\ cw_pc = "ready"
    /\ \E raw \in RollRaws, e \in RawValues :
          cw_out' = [roll |-> RandGen(RandNew(<<raw, e>>), 1, 101),
                     edge |-> RandGen(RandNext(RandNew(<<raw, e>>)), 1, 5),
                     model |-> CarveApplied(cw_in, <<raw, e>>)]
    /\ cw_pc' = "carved"
    /\ UNCHANGED <<gsVars, cw_in, clVars, newVars, genVars>>

\* carve_wall runs for each of the 100 values of the roll; the values that
\* left an edge rough are counted
CarveCount ==
    /\ cw_pc = "ready"
    /\ cw_out' = [count |-> Cardinality(
                     {raw \in RollRaws :
                         RoughEdges(CarveApplied(cw_in, <<raw, 0>>)) # {}})]
    /\ cw_pc' = "counted"
    /\ UNCHANGED <<gsVars, cw_in, clVars, newVars, genVars>>

\* the tile grids (step) and the sizes of a coarse cell in tiles tried
Steps == {1, 2}
Multiples == {1, 2, 3}

\* the coarse cells carved, of an area of 2 x 2 coarse cells
ShapeCells == {<<0, 0>>, <<1, 1>>}

\* the raw values that give the rolls 1 and 100
ShapeRaws == {0, 99}

\* the GenModel of 2 x 2 coarse cells of mult tiles of size step each, all
\* open
ShapeModel(in, tape, step, mult) ==
    [GenModelNew(2 * mult.x * step.x, 2 * mult.y * step.y, RandNew(tape),
                 mult.x, mult.y, step.x, step.y)
        EXCEPT !.region_overfill_edges = in.edges]

\* carve_wall on one coarse cell with the arguments add_walls gives it
\* (lines 189-194), for each tile grid and cell size
CarveShape ==
    /\ cw_pc = "ready"
    /\ \E sx, sy \in Steps, nx, ny \in Multiples, c \in ShapeCells,
          raw \in ShapeRaws, e \in RawValues :
          LET gm == ShapeModel(cw_in, <<raw, e>>, Point(sx, sy), Point(nx, ny))
              offset == from_region_coords(gm, c[1], c[2])
              step == Point(gm.model.grid_width, gm.model.grid_height)
              gen == GeneratorOf(TRUE, OneKind, cw_in.chance, cw_in.chance)
              neighbors == NeighborsOf(cw_in.self, cw_in.sides)
          IN  cw_out' = [offset |-> offset, step |-> step,
                         max |-> gm.total_grid_size,
                         choice |-> edge_choice_of(gen, gm, neighbors).choice,
                         before |-> gm,
                         model |-> carve_wall(gen, gm, neighbors, offset, step,
                                              gm.total_grid_size, 1, Some(0))]
    /\ cw_pc' = "shaped"
    /\ UNCHANGED <<gsVars, cw_in, clVars, newVars, genVars>>

InitCarve == ClIdle /\ NewIdle /\ GenIdle /\ CarveInit /\ GsIdle

NextCarve == CarveOnce \/ CarveCount \/ CarveShape

SpecCarve == InitCarve /\ [][NextCarve]_vars

(***************************************************************************)
(* GameState (sulis_state/src/lib.rs).  Rc<RefCell<AreaState>> is an index *)
(* into area_states, Rc<RefCell<EntityState>> the id of the entity.        *)
(***************************************************************************)
\* the areas of the module: their size, the points an entity can stand on
\* and their triggers
TownArea ==
    [id |-> "town", width |-> 2, height |-> 2,
     passable |-> {<<0, 0>>, <<0, 1>>, <<1, 1>>},
     triggers |-> <<[kind |-> "OnCampaignStart", on_activate |-> "intro"],
                    [kind |-> "OnAreaLoad", on_activate |-> "town_gate"],
                    [kind |-> "OnPlayerEnter", on_activate |-> "town_well"],
                    [kind |-> "OnAreaLoad", on_activate |-> "town_bell"]>>]

CaveArea ==
    [id |-> "cave", width |-> 1, height |-> 1,
     passable |-> {<<0, 0>>},
     triggers |-> <<[kind |-> "OnAreaLoad", on_activate |-> "cave_bats"]>>]

\* Module::area(id)
ModuleArea(id) ==
    CASE id = "town" -> Some(TownArea)
      [] id = "cave" -> Some(CaveArea)
      [] OTHER -> None

\* Location::from_point(p, area) and Location::new(x, y, area)
LocationNew(x, y, area) ==
    [x |-> x, y |-> y, area_id |-> area.id,
     area_width |-> area.width, area_height |-> area.height]

\* location.coords_valid(x, y)
coords_valid(location, x, y) ==
    x >= 0 /\ y >= 0 /\ x < location.area_width /\ y < location.area_height

\* PathFinder::new(area)
PathFinderNew(area) == [area_id |-> area.id, width |-> area.width,
                        height |-> area.height]

\* AreaState::new(area)
AreaStateNew(area) ==
    [area |-> area, entities |-> {}, on_load_fired |-> FALSE, populated |-> 0,
     scroll_to |-> None]

\* area_state.populate()
populate(area_state) == [area_state EXCEPT !.populated = @ + 1]

\* area_state.is_passable_size(size, x, y): the point is one an entity can
\* stand on and no entity of the area stands on it
is_passable_size(area_state, ents, x, y) ==
    /\ <<x, y>> \in area_state.area.passable
    /\ \A e \in area_state.entities :
          ~(ents[e].location.x = x /\ ents[e].location.y = y)

\* area_state.add_entity(entity, location) and add_actor: the entity joins
\* the area at the location when it can stand there
add_entity(heap, ents, ref, entity, location) ==
    IF is_passable_size(heap[ref], ents, location.x, location.y)
    THEN [status |-> "ok",
          heap |-> [heap EXCEPT ![ref].entities = @ \cup {entity}],
          ents |-> MapPut(ents, entity,
                          [location |-> location,
                           party_member |-> IF entity \in DOMAIN ents
                                            THEN ents[entity].party_member
                                            ELSE FALSE])]
    ELSE [status |-> "err", heap |-> heap, ents |-> ents]

\* area_state.remove_entity(entity)
remove_entity(heap, ref, entity) ==
    [heap EXCEPT ![ref].entities = @ \ {entity}]

\* lines 554-569: the new AreaState is the last of the heap
setup_area_state(heap, area_id) ==
    LET area == ModuleArea(area_id)
    IN  IF area = None
        THEN [status |-> "err", heap |-> heap, ref |-> 0]
        ELSE [status |-> "ok",
              heap |-> Append(heap, populate(AreaStateNew(Unwrap(area)))),
              ref |-> Len(heap) + 1]

\* check_location that accepts every point
check_location_any(p, area_state) == TRUE

\* lines 543-552
check_location(p, area_state) ==
    LET location == LocationNew(p.x, p.y, area_state.area)
    IN  coords_valid(location, location.x, location.y)

UICallbackOf(on_trigger, parent, target) ==
    [on_trigger |-> on_trigger, parent |-> parent, target |-> target]

\* lines 585-602: the pending callbacks after the call
add_ui_callbacks_of_kind(ui_callbacks, callbacks, kind, parent, target) ==
    LET RECURSIVE From(_, _)
        From(i, out) ==
            IF i > Len(callbacks) THEN out
            ELSE From(i + 1,
                      IF callbacks[i].kind = kind
                      THEN Append(out, UICallbackOf(callbacks[i].on_activate,
                                                    parent, target))
                      ELSE out)
    IN  From(1, ui_callbacks)

\* lines 571-583
add_ui_callback(ui_callbacks, cb, parent, target) ==
    Append(ui_callbacks, UICallbackOf(cb, parent, target))

\* check_get_ui_callback that takes the oldest pending callback
check_get_ui_callback_oldest(ui_callbacks) ==
    IF ui_callbacks = << >>
    THEN [ui_callbacks |-> << >>, callback |-> None]
    ELSE [ui_callbacks |-> Tail(ui_callbacks), callback |-> Some(Head(ui_callbacks))]

\* lines 613-619: Vec::pop
check_get_ui_callback(ui_callbacks) ==
    IF ui_callbacks = << >>
    THEN [ui_callbacks |-> << >>, callback |-> None]
    ELSE [ui_callbacks |-> SubSeq(ui_callbacks, 1, Len(ui_callbacks) - 1),
          callback |-> Some(ui_callbacks[Len(ui_callbacks)])]

\* ChangeListenerList::notify: the value the listeners were called with is
\* added to the record of notifications
notify(party_listeners, value) == Append(party_listeners, value)

FirstOf(list) == IF list = << >> THEN None ELSE Some(list[1])

\* lines 262-306: GameState::new for the game (starting area and location)
\* of the module; the player character is the entity "pc"
GameStateNew(game) ==
    LET setup == setup_area_state(<< >>, game.starting_area)
        failed == [status |-> "err", state |-> None, heap |-> << >>,
                   ents |-> EmptyMap]
    IN  IF setup.status = "err" THEN failed
        ELSE LET area == setup.heap[setup.ref].area
                 location == LocationNew(game.starting_location.x,
                                         game.starting_location.y, area)
                 added == add_entity(setup.heap, EmptyMap, setup.ref, "pc", location)
             IN  IF ~coords_valid(location, location.x, location.y) THEN failed
                 ELSE IF added.status = "err" THEN failed
                 ELSE [status |-> "ok",
                       state |-> Some(
                           [areas |-> MapPut(EmptyMap, game.starting_area, setup.ref),
                            area_state |-> setup.ref,
                            path_finder |-> PathFinderNew(area),
                            selected |-> <<"pc">>,
                            party |-> <<"pc">>,
                            party_listeners |-> << >>,
                            ui_callbacks |-> << >>]),
                       heap |-> added.heap,
                       ents |-> [added.ents EXCEPT !["pc"].party_member = TRUE]]

\* get_area_state that finds no stored state
get_area_state_missing(gs, id) == None

\* lines 637-644
get_area_state(gs, id) ==
    IF id \in DOMAIN gs.areas THEN Some(gs.areas[id]) ELSE None

\* line 525: the search sizes find_transition_location tries
SearchLimit == 10

\* lines 522-541: the first point an entity can stand on, by growing
\* squares around the location, each square by rows; the location itself
\* when there is none
find_transition_location(location, area_state, ents) ==
    LET RECURSIVE Search(_)
        Search(search_size) ==
            IF search_size >= SearchLimit THEN location
            ELSE LET found == {d \in (-search_size..search_size)
                                        \X (-search_size..search_size) :
                                  is_passable_size(area_state, ents,
                                                   location.x + d[2],
                                                   location.y + d[1])}
                     first_found ==
                         CHOOSE d \in found : \A e \in found :
                             d[1] < e[1] \/ (d[1] = e[1] /\ d[2] <= e[2])
                 IN  IF found = {} THEN Search(search_size + 1)
                     ELSE [location EXCEPT !.x = @ + first_found[2],
                                           !.y = @ + first_found[1]]
    IN  Search(0)

\* lines 475-480: every party member leaves the area its location names
RECURSIVE remove_party(_, _, _, _)
remove_party(gs, heap, ents, i) ==
    IF i > Len(gs.party) THEN heap
    ELSE remove_party(gs,
                      remove_entity(heap, gs.areas[ents[gs.party[i]].location.area_id],
                                    gs.party[i]),
                      ents, i + 1)

\* lines 482-498: the party members join the current area one by one, each
\* at the first free point around (x, y); one that finds no point joins no
\* area
RECURSIVE place_party(_, _, _, _, _, _)
place_party(gs, heap, ents, x, y, i) ==
    IF i > Len(gs.party) THEN [heap |-> heap, ents |-> ents]
    ELSE LET base_location == LocationNew(x, y, heap[gs.area_state].area)
             cur_location == find_transition_location(base_location,
                                                      heap[gs.area_state], ents)
             added == add_entity(heap, ents, gs.area_state, gs.party[i],
                                 cur_location)
         IN  place_party(gs, added.heap, added.ents, x, y, i + 1)

\* fire_on_load without the test of on_load_fired
fire_on_load_always(gs, heap) ==
    LET area_state == heap[gs.area_state]
        pc_entity == gs.party[1]
    IN  [gs |-> [gs EXCEPT !.ui_callbacks =
                    add_ui_callbacks_of_kind(@, area_state.area.triggers,
                                             "OnAreaLoad", pc_entity, pc_entity)],
         heap |-> [heap EXCEPT ![gs.area_state].on_load_fired = TRUE]]

\* lines 507-518: OnAreaLoad callbacks of the current area, if not yet fired
fire_on_load(gs, heap) ==
    LET area_state == heap[gs.area_state]
        pc_entity == gs.party[1]
    IN  IF ~area_state.on_load_fired
        THEN [gs |-> [gs EXCEPT !.ui_callbacks =
                         add_ui_callbacks_of_kind(@, area_state.area.triggers,
                                                  "OnAreaLoad", pc_entity, pc_entity)],
              heap |-> [heap EXCEPT ![gs.area_state].on_load_fired = TRUE]]
        ELSE [gs |-> gs, heap |-> heap]

\* lines 473-518: the transition once the target is accepted
transition_finish(gs, heap, ents, x, y) ==
    LET removed == remove_party(gs, heap, ents, 1)
        placed == place_party(gs, removed, ents, x, y, 1)
        scrolled == [placed.heap EXCEPT ![gs.area_state].scroll_to = Some(gs.party[1])]
        fired == fire_on_load(gs, scrolled)
    IN  [status |-> "done", gs |-> fired.gs, heap |-> fired.heap,
         ents |-> placed.ents, clear |-> TRUE]

\* lines 430-519: GameState::transition(area_id, x, y)
transition(gs, heap, ents, clear, area_id, x, y) ==
    LET p == Point(x, y)
        kept(s, h) == [status |-> "returned", gs |-> s, heap |-> h, ents |-> ents,
                       clear |-> clear]
    IN  IF area_id # None
        THEN LET id == Unwrap(area_id)
                 stored == get_area_state(gs, id)
                 setup == setup_area_state(heap, id)
             IN  IF stored = None /\ setup.status = "err" THEN kept(gs, heap)
                 ELSE LET ref == IF stored = None THEN setup.ref ELSE Unwrap(stored)
                          heap1 == IF stored = None THEN setup.heap ELSE heap
                          gs1 == IF stored = None
                                 THEN [gs EXCEPT !.areas = MapPut(@, id, ref)]
                                 ELSE gs
                      IN  IF ~check_location(p, heap1[ref]) THEN kept(gs1, heap1)
                          ELSE transition_finish(
                                   [gs1 EXCEPT !.path_finder = PathFinderNew(heap1[ref].area),
                                               !.area_state = ref],
                                   heap1, ents, x, y)
        ELSE IF ~check_location(p, heap[gs.area_state]) THEN kept(gs, heap)
             ELSE transition_finish(gs, heap, ents, x, y)

\* lines 349-370: the entity becomes a party member, last of the party
add_party_member(gs, ents, entity) ==
    [gs |-> [gs EXCEPT !.party = Append(@, entity),
                       !.party_listeners = notify(@, FirstOf(gs.selected))],
     ents |-> [ents EXCEPT ![entity].party_member = TRUE]]

\* the members that are the party member, in the order of members
Matching(party_member, members) ==
    SelectSeq(members, LAMBDA member : member = party_member)

\* lines 316-343: selected is cleared, then for each party member in party
\* order every member that is it is pushed; the listeners hear of the first
select_party_members(gs, members) ==
    LET RECURSIVE From(_, _)
        From(i, selected) ==
            IF i > Len(gs.party) THEN selected
            ELSE From(i + 1, selected \o Matching(gs.party[i], members))
        selected == From(1, << >>)
    IN  [gs EXCEPT !.selected = selected,
                   !.party_listeners = notify(@, FirstOf(selected))]

\* lines 308-310
set_selected_party_member(gs, entity) == select_party_members(gs, <<entity>>)

\* lines 312-314
clear_selected_party_member(gs) == select_party_members(gs, << >>)

\* lines 243-260: GameState::init after GameState::new succeeded
game_init(made) ==
    LET gs == Unwrap(made.state)
        area_state == made.heap[gs.area_state]
        pc_entity == gs.party[1]
        started == add_ui_callbacks_of_kind(gs.ui_callbacks, area_state.area.triggers,
                                            "OnCampaignStart", pc_entity, pc_entity)
        loaded == add_ui_callbacks_of_kind(started, area_state.area.triggers,
                                           "OnAreaLoad", pc_entity, pc_entity)
    IN  [state |-> Some([gs EXCEPT !.ui_callbacks = loaded]),
         heap |-> [made.heap EXCEPT ![gs.area_state].scroll_to = Some(pc_entity),
                                    ![gs.area_state].on_load_fired = TRUE],
         ents |-> made.ents]

(***************************************************************************)
(* SpecGame.                                                               *)
(***************************************************************************)
\* Module::game(): the starting area and location; the second has a
\* location outside the area, the third one no entity can stand on, the
\* fourth an area the module does not have
Games ==
    {[starting_area |-> "town", starting_location |-> Point(0, 0)],
     [starting_area |-> "town", starting_location |-> Point(2, 0)],
     [starting_area |-> "town", starting_location |-> Point(1, 0)],
     [starting_area |-> "moon", starting_location |-> Point(0, 0)],
     [starting_area |-> "cave", starting_location |-> Point(0, 0)]}

\* the targets of a transition: the current area, an area of the module, or
\* an area it does not have
TargetAreas == {None, Some("town"), Some("cave"), Some("moon")}

TargetCoords == {<<0, 0>>, <<1, 1>>, <<1, 0>>, <<-1, 0>>, <<0, 2>>}

GameStart ==
    /\ gs_pc = "start"
    /\ game_state = None
    /\ area_states = << >>
    /\ entities = EmptyMap
    /\ clear_anims = FALSE
    /\ animations = << >>
    /\ anims_to_add = << >>
    /\ gs_obs = NoResult

\* GameState::init(pc_actor), lines 243-260
GameInit ==
    /\ gs_pc = "start"
    /\ \E game \in Games :
          LET made == GameStateNew(game)
          IN  IF made.status = "err"
              THEN /\ gs_pc' = "failed"
                   /\ gs_obs' = [op |-> "init", game |-> game, status |-> "err"]
                   /\ UNCHANGED <<game_state, area_states, entities>>
              ELSE /\ gs_pc' = "running"
                   /\ gs_obs' = [op |-> "init", game |-> game, status |-> "ok"]
                   /\ game_state' = game_init(made).state
                   /\ area_states' = game_init(made).heap
                   /\ entities' = game_init(made).ents
    /\ UNCHANGED <<clear_anims, animations, anims_to_add, cwVars, clVars, newVars,
                   genVars>>

\* GameState::transition(area_id, x, y), lines 430-519
Transition ==
    /\ gs_pc = "running"
    /\ \E area_id \in TargetAreas, c \in TargetCoords :
          LET r == transition(Unwrap(game_state), area_states, entities,
                              clear_anims, area_id, c[1], c[2])
          IN  /\ game_state' = Some(r.gs)
              /\ area_states' = r.heap
              /\ entities' = r.ents
              /\ clear_anims' = r.clear
              /\ gs_obs' = [op |-> "transition", area_id |-> area_id,
                            x |-> c[1], y |-> c[2], status |-> r.status]
    /\ UNCHANGED <<gs_pc, animations, anims_to_add, cwVars, clVars, newVars, genVars>>

\* an actor joins the current area where it can stand and then the party:
\* area_state.add_actor followed by GameState::add_party_member, lines 349-370
Recruit ==
    /\ gs_pc = "running"
    /\ "ally" \notin DOMAIN entities
    /\ LET gs == Unwrap(game_state)
           area_state == area_states[gs.area_state]
           location == find_transition_location(LocationNew(0, 0, area_state.area),
                                                area_state, entities)
           added == add_entity(area_states, entities, gs.area_state, "ally", location)
           joined == add_party_member(gs, added.ents, "ally")
       IN  /\ added.status = "ok"
           /\ game_state' = Some(joined.gs)
           /\ area_states' = added.heap
           /\ entities' = joined.ents
    /\ gs_obs' = [op |-> "add_party_member", entity |-> "ally"]
    /\ UNCHANGED <<gs_pc, clear_anims, animations, anims_to_add, cwVars, clVars,
                   newVars, genVars>>

\* check_clear_anims, lines 621-625, as GameState::update calls it
CheckClearAnims ==
    /\ gs_pc = "running"
    /\ clear_anims
    /\ clear_anims' = FALSE
    /\ gs_obs' = [op |-> "check_clear_anims", cleared |-> clear_anims]
    /\ UNCHANGED <<gs_pc, game_state, area_states, entities, animations,
                   anims_to_add, cwVars, clVars, newVars, genVars>>

InitGame == ClIdle /\ NewIdle /\ GenIdle /\ CwIdle /\ GameStart

NextGame == GameInit \/ Transition \/ Recruit \/ CheckClearAnims

SpecGame == InitGame /\ [][NextGame]_vars

(***************************************************************************)
(* SpecParty.                                                              *)
(***************************************************************************)
MaxMembers == 3    \* longest list handed to select_party_members

\* the entities of the town besides the player character
Others == {"ally", "npc"}

\* the lists of entities of at most n entries
RECURSIVE ListsUpTo(_, _)
ListsUpTo(set, n) ==
    IF n = 0 THEN {<< >>}
    ELSE ListsUpTo(set, n - 1)
         \cup {Append(l, e) : l \in {m \in ListsUpTo(set, n - 1) : Len(m) = n - 1},
                              e \in set}

MemberLists == ListsUpTo({"pc"} \cup Others, MaxMembers)

\* the game begun in the town, with the other entities standing in it
PartyGame ==
    LET begun == game_init(GameStateNew([starting_area |-> "town",
                                         starting_location |-> Point(0, 0)]))
        ref == Unwrap(begun.state).area_state
        ally == add_entity(begun.heap, begun.ents, ref, "ally",
                           LocationNew(0, 1, TownArea))
        npc == add_entity(ally.heap, ally.ents, ref, "npc",
                          LocationNew(1, 1, TownArea))
    IN  [state |-> begun.state, heap |-> npc.heap, ents |-> npc.ents]

PartyStart ==
    /\ gs_pc = "party"
    /\ game_state = PartyGame.state
    /\ area_states = PartyGame.heap
    /\ entities = PartyGame.ents
    /\ clear_anims = FALSE
    /\ animations = << >>
    /\ anims_to_add = << >>
    /\ gs_obs = NoResult

\* the GameState with the record of notifications begun anew
Listening == [Unwrap(game_state) EXCEPT !.party_listeners = << >>]

PartyOf(gs) == {gs.party[i] : i \in 1..Len(gs.party)}

\* GameState::add_party_member(entity), lines 349-370
AddPartyMember ==
    /\ gs_pc = "party"
    /\ \E entity \in DOMAIN entities \ PartyOf(Unwrap(game_state)) :
          LET joined == add_party_member(Listening, entities, entity)
          IN  /\ game_state' = Some(joined.gs)
              /\ entities' = joined.ents
              /\ gs_obs' = [op |-> "add_party_member", entity |-> entity]
    /\ UNCHANGED <<gs_pc, area_states, clear_anims, animations, anims_to_add,
                   cwVars, clVars, newVars, genVars>>

\* GameState::select_party_members(members), lines 316-343
SelectPartyMembers ==
    /\ gs_pc = "party"
    /\ \E members \in MemberLists :
          /\ game_state' = Some(select_party_members(Listening, members))
          /\ gs_obs' = [op |-> "select_party_members", members |-> members]
    /\ UNCHANGED <<gs_pc, area_states, entities, clear_anims, animations,
                   anims_to_add, cwVars, clVars, newVars, genVars>>

\* GameState::set_selected_party_member(entity), lines 308-310
SetSelectedPartyMember ==
    /\ gs_pc = "party"
    /\ \E entity \in DOMAIN entities :
          /\ game_state' = Some(set_selected_party_member(Listening, entity))
          /\ gs_obs' = [op |-> "set_selected_party_member", members |-> <<entity>>]
    /\ UNCHANGED <<gs_pc, area_states, entities, clear_anims, animations,
                   anims_to_add, cwVars, clVars, newVars, genVars>>

\* GameState::clear_selected_party_member(), lines 312-314
ClearSelectedPartyMember ==
    /\ gs_pc = "party"
    /\ game_state' = Some(clear_selected_party_member(Listening))
    /\ gs_obs' = [op |-> "clear_selected_party_member", members |-> << >>]
    /\ UNCHANGED <<gs_pc, area_states, entities, clear_anims, animations,
                   anims_to_add, cwVars, clVars, newVars, genVars>>

InitParty == ClIdle /\ NewIdle /\ GenIdle /\ CwIdle /\ PartyStart

NextParty ==
    \/ AddPartyMember
    \/ SelectPartyMembers
    \/ SetSelectedPartyMember
    \/ ClearSelectedPartyMember

SpecParty == InitParty /\ [][NextParty]_vars

(***************************************************************************)
(* SpecUi.                                                                 *)
(***************************************************************************)
MaxAdds == 3       \* callbacks added before the adding stops

\* the OnTrigger values handed to add_ui_callback
OnTriggers == {"say", "shop"}

TriggerKinds == {"OnCampaignStart", "OnAreaLoad", "OnPlayerEnter"}

\* the trigger lists handed to add_ui_callbacks_of_kind
TriggerLists == {TownArea.triggers, CaveArea.triggers}

\* the GameState as GameState::new makes it for the town: no callback is
\* pending
UiGame ==
    GameStateNew([starting_area |-> "town", starting_location |-> Point(0, 0)])

UiStart ==
    /\ gs_pc = "ui"
    /\ game_state = UiGame.state
    /\ area_states = UiGame.heap
    /\ entities = UiGame.ents
    /\ clear_anims = FALSE
    /\ animations = << >>
    /\ anims_to_add = << >>
    /\ gs_obs = [op |-> "new", added |-> << >>, returned |-> << >>, last |-> None]

\* GameState::add_ui_callback(cb, parent, target), lines 571-583
AddUiCallback ==
    /\ gs_pc = "ui"
    /\ Len(gs_obs.added) < MaxAdds
    /\ \E cb \in OnTriggers, target \in {"pc"} :
          LET gs == Unwrap(game_state)
              pending == add_ui_callback(gs.ui_callbacks, cb, "pc", target)
          IN  /\ game_state' = Some([gs EXCEPT !.ui_callbacks = pending])
              /\ gs_obs' = [op |-> "add_ui_callback",
                            added |-> Append(gs_obs.added,
                                             UICallbackOf(cb, "pc", target)),
                            returned |-> gs_obs.returned, last |-> None]
    /\ UNCHANGED <<gs_pc, area_states, entities, clear_anims, animations,
                   anims_to_add, cwVars, clVars, newVars, genVars>>

\* GameState::add_ui_callbacks_of_kind(callbacks, kind, parent, target),
\* lines 585-603
AddUiCallbacksOfKind ==
    /\ gs_pc = "ui"
    /\ Len(gs_obs.added) < MaxAdds
    /\ \E callbacks \in TriggerLists, kind \in TriggerKinds :
          LET gs == Unwrap(game_state)
              pending == add_ui_callbacks_of_kind(gs.ui_callbacks, callbacks, kind,
                                                  "pc", "pc")
          IN  /\ game_state' = Some([gs EXCEPT !.ui_callbacks = pending])
              /\ gs_obs' = [op |-> "add_ui_callbacks_of_kind",
                            callbacks |-> callbacks, kind |-> kind,
                            added |-> gs_obs.added
                                \o SubSeq(pending, Len(gs.ui_callbacks) + 1,
                                          Len(pending)),
                            returned |-> gs_obs.returned, last |-> None]
    /\ UNCHANGED <<gs_pc, area_states, entities, clear_anims, animations,
                   anims_to_add, cwVars, clVars, newVars, genVars>>

\* GameState::check_get_ui_callback(), lines 613-619
CheckGetUiCallback ==
    /\ gs_pc = "ui"
    /\ LET gs == Unwrap(game_state)
           got == check_get_ui_callback(gs.ui_callbacks)
       IN  /\ game_state' = Some([gs EXCEPT !.ui_callbacks = got.ui_callbacks])
           /\ gs_obs' = [op |-> "check_get_ui_callback",
                         added |-> gs_obs.added,
                         returned |-> gs_obs.returned \o got.callback,
                         last |-> got.callback]
    /\ UNCHANGED <<gs_pc, area_states, entities, clear_anims, animations,
                   anims_to_add, cwVars, clVars, newVars, genVars>>

InitUi == ClIdle /\ NewIdle /\ GenIdle /\ CwIdle /\ UiStart

NextUi == AddUiCallback \/ AddUiCallbacksOfKind \/ CheckGetUiCallback

SpecUi == InitUi /\ [][NextUi]_vars

(***************************************************************************)
(* SpecAnims.  An animation is the Box handed to add_animation: its serial *)
(* number, whether it is blocking, whether it was marked for removal.      *)
(***************************************************************************)
MaxAnims == 3      \* animations added before the adding stops

AnimationNew(id, blocking) == [id |-> id, blocking |-> blocking, marked |-> FALSE]

AnimIds(list) == [i \in 1..Len(list) |-> list[i].id]

RemoveAt(list, i) == SubSeq(list, 1, i - 1) \o SubSeq(list, i + 1, Len(list))

\* lines 751-757
add_animation(to_add, anim) == Append(to_add, anim)

\* the loop of lines 665-673 with i advanced after a removal too
update_animations_skip(anims, to_add, retain) ==
    LET RECURSIVE Loop(_, _, _)
        Loop(list, i, updated) ==
            IF i > Len(list) THEN [animations |-> list, updated |-> updated]
            ELSE IF retain[list[i].id]
                 THEN Loop(list, i + 1, Append(updated, list[i].id))
                 ELSE Loop(RemoveAt(list, i), i + 1, Append(updated, list[i].id))
        done == Loop(anims \o to_add, 1, << >>)
    IN  [animations |-> done.animations, anims_to_add |-> << >>,
         updated |-> done.updated]

\* lines 650-674: the pending animations are drained and appended to the
\* active ones; each active animation is updated, and removed when its
\* update returns false (retain gives what each update returns)
update_animations(anims, to_add, retain) ==
    LET RECURSIVE Loop(_, _, _)
        Loop(list, i, updated) ==
            IF i > Len(list) THEN [animations |-> list, updated |-> updated]
            ELSE IF retain[list[i].id]
                 THEN Loop(list, i + 1, Append(updated, list[i].id))
                 ELSE Loop(RemoveAt(list, i), i, Append(updated, list[i].id))
        done == Loop(anims \o to_add, 1, << >>)
    IN  [animations |-> done.animations, anims_to_add |-> << >>,
         updated |-> done.updated]

\* lines 696-705: the blocking animations are marked for removal
mark_blocking(anims) ==
    [i \in 1..Len(anims) |->
        IF anims[i].blocking THEN [anims[i] EXCEPT !.marked = TRUE] ELSE anims[i]]

\* Animation::update for the animations in the two lists: a marked
\* animation returns false, another one either value
Retains ==
    LET all == animations \o anims_to_add
        ids == {all[i].id : i \in 1..Len(all)}
    IN  {retain \in [ids -> BOOLEAN] :
            \A i \in 1..Len(all) : all[i].marked => ~retain[all[i].id]}

AnimsStart ==
    /\ gs_pc = "anims"
    /\ game_state = UiGame.state
    /\ area_states = UiGame.heap
    /\ entities = UiGame.ents
    /\ clear_anims = FALSE
    /\ animations = << >>
    /\ anims_to_add = << >>
    /\ gs_obs = [op |-> "new", next |-> 0, gone |-> {}]

\* GameState::add_animation(anim), lines 751-757, between two updates
AddAnimation ==
    /\ gs_pc = "anims"
    /\ gs_obs.next < MaxAnims
    /\ \E blocking \in BOOLEAN :
          anims_to_add' = add_animation(anims_to_add,
                                        AnimationNew(gs_obs.next, blocking))
    /\ gs_obs' = [op |-> "add_animation", next |-> gs_obs.next + 1,
                  gone |-> gs_obs.gone]
    /\ UNCHANGED <<gs_pc, game_state, area_states, entities, clear_anims,
                   animations, cwVars, clVars, newVars, genVars>>

\* GameState::set_clear_anims(), lines 627-629
SetClearAnims ==
    /\ gs_pc = "anims"
    /\ ~clear_anims
    /\ clear_anims' = TRUE
    /\ gs_obs' = [op |-> "set_clear_anims", next |-> gs_obs.next,
                  gone |-> gs_obs.gone]
    /\ UNCHANGED <<gs_pc, game_state, area_states, entities, animations,
                   anims_to_add, cwVars, clVars, newVars, genVars>>

\* GameState::update, lines 650-674
UpdateAnimations ==
    /\ gs_pc = "anims"
    /\ \E retain \in Retains :
          LET r == update_animations(animations, anims_to_add, retain)
          IN  /\ animations' = r.animations
              /\ anims_to_add' = r.anims_to_add
              /\ gs_obs' = [op |-> "update", next |-> gs_obs.next,
                            gone |-> gs_obs.gone
                                \cup {id \in DOMAIN retain : ~retain[id]},
                            updated |-> r.updated, retain |-> retain]
    /\ gs_pc' = "updating"
    /\ UNCHANGED <<game_state, area_states, entities, clear_anims, cwVars,
                   clVars, newVars, genVars>>

\* GameState::update, lines 676-710: the area state, the round callbacks and
\* the AI run, and may add animations; the blocking animations are marked
\* if the flag was set, which is taken down
UpdateArea ==
    /\ gs_pc = "updating"
    /\ animations' = IF clear_anims THEN mark_blocking(animations) ELSE animations
    /\ clear_anims' = FALSE
    /\ \E spawn \in BOOLEAN :
          IF spawn /\ gs_obs.next < MaxAnims
          THEN /\ anims_to_add' = add_animation(anims_to_add,
                                                AnimationNew(gs_obs.next, TRUE))
               /\ gs_obs' = [op |-> "update_area", next |-> gs_obs.next + 1,
                             gone |-> gs_obs.gone]
          ELSE /\ anims_to_add' = anims_to_add
               /\ gs_obs' = [op |-> "update_area", next |-> gs_obs.next,
                             gone |-> gs_obs.gone]
    /\ gs_pc' = "anims"
    /\ UNCHANGED <<game_state, area_states, entities, cwVars, clVars, newVars,
                   genVars>>

InitAnims == ClIdle /\ NewIdle /\ GenIdle /\ CwIdle /\ AnimsStart

NextAnims == AddAnimation \/ SetClearAnims \/ UpdateAnimations \/ UpdateArea

SpecAnims == InitAnims /\ [][NextAnims]_vars

(***************************************************************************)
(* The claims.                                                             *)
(***************************************************************************)
InBounds(p, width, height) == 0 <= p.x /\ p.x < width /\ 0 <= p.y /\ p.y < height

\* the tile of a placement is somewhere in the layer built for its model layer
Kept(out, li, tile) ==
    \E c \in DOMAIN out.layers[li].tiles :
        \E j \in 1..Len(out.layers[li].tiles[c]) : out.layers[li].tiles[c][j] = tile

\* C1: create_layers never panics or fails because of a placement outside
\* the area: every placement outside [0,width) x [0,height) is dropped and
\* every placement inside is kept.
C1_OutsideDroppedInsideKept ==
    cl_pc = "done" =>
        /\ cl_out.status = "ok"
        /\ \A li \in 1..Len(cl_model) : \A k \in 1..Len(cl_model[li].data) :
              Kept(cl_out, li, cl_model[li].data[k].tile)
                  <=> InBounds(cl_model[li].data[k].p, cl_width, cl_height)

\* C2: in every layer create_layers returns, the tile stack at index i holds
\* only tiles placed at a point (x, y) inside the area with i = x + y * width.
C2_StackHoldsOnlyTilesOfItsCell ==
    (cl_pc = "done" /\ cl_out.status = "ok") =>
        \A li \in 1..Len(cl_out.layers) :
            \A c \in DOMAIN cl_out.layers[li].tiles :
                \A j \in 1..Len(cl_out.layers[li].tiles[c]) :
                    \E k \in 1..Len(cl_model[li].data) :
                        /\ cl_model[li].data[k].tile = cl_out.layers[li].tiles[c][j]
                        /\ InBounds(cl_model[li].data[k].p, cl_width, cl_height)
                        /\ c = cl_model[li].data[k].p.x
                               + cl_model[li].data[k].p.y * cl_width

(***************************************************************************)
(* AreaGenerator::new.                                                     *)
(***************************************************************************)
GroupNames == {Groups[i] : i \in 1..Len(Groups)}

AllResolve == \A g \in GroupNames : Resolves(builder[g])

\* C6: new returns an error whenever some group holds a reference the module
\* cannot resolve, and then there is no AreaGenerator, so generate is never
\* reached with one; new returns an AreaGenerator only when every group
\* resolved.
C6_NewFailsIffUnresolved ==
    /\ new_pc = "built" => AllResolve /\ new_out.status = "ok"
    /\ new_pc = "failed" =>
          /\ ~AllResolve
          /\ new_out.status = "err"
          /\ ~Resolves(builder[new_out.label])
          /\ new_out.id \in builder[new_out.label] \ ModuleIds
          /\ generator = NoResult
    /\ (new_pc \in {"built", "failed"} /\ ~AllResolve) => new_pc = "failed"
    /\ generator # NoResult => AllResolve /\ generator = BuiltGenerator(builder)

C6_Witness ==
    /\ new_pc = "failed"
    /\ new_out.label = "props"
    /\ \A g \in GroupNames : g # "props" => Resolves(builder[g])

(***************************************************************************)
(* The stages of generate.                                                 *)
(***************************************************************************)
AllStages ==
    <<"maze", "walls", "terrain", "tiles", "snapshot", "features", "props",
      "encounters", "final">>

\* the stage returns Err in this call
StageFails(stage) ==
    \/ stage = "maze" /\ generator.room_params.min_rooms > maze.width * maze.height
    \/ stage \in {"features", "props", "encounters"} /\ stage = args.fault
    \/ stage \in {"snapshot", "final"}
          /\ create_layers(args.width, args.height, model.model.tiles).status = "err"

ClaimedOrder ==
    <<"maze", "walls", "terrain", "snapshot", "features", "props", "encounters",
      "final">>

IsClaimedStage(stage) == stage # "tiles"

IsPrefix(s, t) == Len(s) <= Len(t) /\ s = SubSeq(t, 1, Len(s))

StageOfPc ==
    CASE pc = "carve" -> "walls"
      [] pc = "tiles" -> "snapshot"
      [] OTHER -> pc

\* C7: within one call the stages run once each in the order maze, walls,
\* terrain, snapshot, features, props, encounters, final; the stage about
\* to run is the one after the last finished, and none runs twice.
C7_StagesInFixedOrder ==
    LET done == SelectSeq(trace, IsClaimedStage)
    IN  /\ IsPrefix(done, ClaimedOrder)
        /\ pc \notin {"idle", "returned", "panicked"} =>
              /\ Len(done) < Len(ClaimedOrder)
              /\ StageOfPc = ClaimedOrder[Len(done) + 1]
        /\ result.status = "ok" => done = ClaimedOrder
        /\ pc = "carve" => cell \in 0..(maze.width * maze.height)

C7_Witness ==
    /\ pc = "returned"
    /\ result.status = "ok"
    /\ SelectSeq(trace, IsClaimedStage) = ClaimedOrder
    /\ args.passes = 2

(***************************************************************************)
(* Transition anchors.                                                     *)
(***************************************************************************)
MazeGenerated == trace # << >> /\ trace[1] = "maze" /\ result # ErrorOf("maze")

AnchorOf(i) ==
    to_region_coords(model, args.transitions[i].from.x, args.transitions[i].from.y)

C4_NoStateSurvivesACall ==
    /\ [][generator' = generator]_vars
    /\ [](pc = "maze" => model.region_overfill_edges = EmptyMap)
    /\ []((pc = "carve" /\ cell = 0) => mapped = EmptyMap)

\* the second call starts carving after a first call that memoized a kind
C4_Witness ==
    /\ pc = "carve"
    /\ cell = 0
    /\ calls >= 1
    /\ generator.room_params.invert
    /\ \E c \in DOMAIN maze.cells : maze.cells[c].kind # "Wall"
    /\ first.result.status = "ok"

(***************************************************************************)
(* Wall kinds after add_walls.                                             *)
(***************************************************************************)
\* the fine tiles of the coarse cell c
CellPoints(gm, c) ==
    {p \in DOMAIN gm.model.walls : to_region_coords(gm, p[1], p[2]) = Point(c[1], c[2])}

RegionCells == {c \in DOMAIN maze.cells : maze.cells[c].kind # "Wall"}

\* the statement of C9 as written: in invert mode every fine tile of a
\* cell of a region has the wall kind picked for the region
C9_AllTilesOfRegionShareKind ==
    (pc = "walled" /\ generator.room_params.invert) =>
        \A c \in RegionCells :
            /\ maze.cells[c].region \in DOMAIN mapped
            /\ \A p \in CellPoints(model, c) :
                  model.model.walls[p].kind = mapped[maze.cells[c].region]

\* C9: in invert mode, after add_walls, every fine tile that was carved for
\* a cell of a region is raised and has the wall kind memoized when the
\* region was first met, the same for all cells of the region; a tile left
\* out on a rough edge keeps the open fill, elevation 0 and no wall kind.
C9_CarvedTilesShareRegionKind ==
    (pc = "walled" /\ generator.room_params.invert) =>
        \A c \in RegionCells :
            /\ maze.cells[c].region \in DOMAIN mapped
            /\ \A p \in CellPoints(model, c) :
                  \/ model.model.walls[p] =
                        [elev |-> 1, kind |-> mapped[maze.cells[c].region]]
                  \/ model.model.walls[p] = [elev |-> 0, kind |-> None]
            /\ \E p \in CellPoints(model, c) : model.model.walls[p].elev = 1

\* two regions with different kinds, one of them over two cells, and a tile
\* left out on a rough edge
C9_Witness ==
    /\ pc = "walled"
    /\ generator.room_params.invert
    /\ {RoomRegion, CorridorRegion} \subseteq DOMAIN mapped
    /\ mapped[RoomRegion] # mapped[CorridorRegion]
    /\ mapped[RoomRegion] # None
    /\ \E c, d \in RegionCells : c # d /\ maze.cells[c].region = maze.cells[d].region
    /\ \E c \in RegionCells : \E p \in CellPoints(model, c) :
          model.model.walls[p].elev = 0

(***************************************************************************)
(* The scenario of a 2 x 2 maze with one wall kind.                        *)
(***************************************************************************)
Scenario ==
    /\ pc = "returned"
    /\ result.status = "ok"
    /\ ~generator.room_params.invert
    /\ generator.wall_kinds.kinds = OneKind
    /\ args.transitions = << >>
    /\ maze.width = 2
    /\ maze.height = 2

\* the final layers hold a wall tile of the kind at the index
HasWallTile(index, kind) ==
    \E li \in 1..Len(result.output.layers) :
        /\ index \in DOMAIN result.output.layers[li].tiles
        /\ \E j \in 1..Len(result.output.layers[li].tiles[index]) :
              result.output.layers[li].tiles[index][j] = WallTile(kind)

HasAnyWallTile(index) ==
    \E li \in 1..Len(result.output.layers) :
        /\ index \in DOMAIN result.output.layers[li].tiles
        /\ \E j \in 1..Len(result.output.layers[li].tiles[index]) :
              result.output.layers[li].tiles[index][j].kind = "wall"

IndexesInRange ==
    \A li \in 1..Len(result.output.layers) :
        DOMAIN result.output.layers[li].tiles = 0..(args.width * args.height - 1)

NoSelection == TotalWeight(generator.wall_kinds.kinds) = 0

Walls == model.model.walls

\* the tile in the middle of the coarse cell c: carve_wall always sets it
CentreTile(gm, c) ==
    <<from_region_coords(gm, c[1], c[2]).x + gm.model.grid_width,
      from_region_coords(gm, c[1], c[2]).y + gm.model.grid_height>>

\* C11: with an empty or all-zero-weight wall-kind list add_walls runs to
\* its end, every tile has no wall kind, the cells of regions are carved
\* all the same, and in invert mode None is memoized for every region met.
C11_NoSelectionIsNoError ==
    (pc = "walled" /\ NoSelection) =>
        /\ \A p \in DOMAIN Walls : Walls[p].kind = None
        /\ \A c \in RegionCells :
              Walls[CentreTile(model, c)].elev =
                  (IF generator.room_params.invert THEN 1 ELSE 0)
        /\ generator.room_params.invert =>
              \A c \in RegionCells :
                  /\ maze.cells[c].region \in DOMAIN mapped
                  /\ mapped[maze.cells[c].region] = None
        /\ ~generator.room_params.invert => mapped = EmptyMap

C11_Witness ==
    /\ pc = "walled"
    /\ generator.wall_kinds.kinds = ZeroKinds
    /\ generator.room_params.invert
    /\ DOMAIN mapped = {RoomRegion, CorridorRegion}
    /\ \E c, d \in RegionCells : c # d /\ maze.cells[c].region = maze.cells[d].region

(***************************************************************************)
(* The order of the layers.                                                *)
(***************************************************************************)
IdsOf(ls) == [i \in 1..Len(ls) |-> ls[i].id]

\* C12: the layers of the output are the layers of the TilesModel, one
\* Layer each with the same id, in the order the model first got them; the
\* snapshot taken before the features has them in the same order.
C12_LayersInInsertionOrder ==
    /\ pc = "features" => IdsOf(layers) = IdsOf(model.model.tiles)
    /\ result.status = "ok" =>
          /\ IdsOf(result.output.layers) = IdsOf(model.model.tiles)
          /\ IsPrefix(IdsOf(layers), IdsOf(result.output.layers))
          /\ \A i, j \in 1..Len(result.output.layers) :
                result.output.layers[i].id = result.output.layers[j].id => i = j

\* a tile handed in made "terrain" the first layer, ahead of "walls"
C12_Witness ==
    /\ pc = "returned"
    /\ result.status = "ok"
    /\ IdsOf(result.output.layers) = <<"terrain", "walls">>
    /\ IdsOf(layers) = <<"terrain", "walls">>

(***************************************************************************)
(* Rough edges, as the tiles show them after add_walls.                    *)
(***************************************************************************)
\* the elevation carve_wall gives a tile: walls are carved in in invert
\* mode, carved out otherwise
CarvedElev == IF generator.room_params.invert THEN 1 ELSE 0

\* edge i of the carved cell c was left as the fill had it
LeftRough(c, i) == \A p \in EdgeTiles(model, c, i) : Walls[p].elev # CarvedElev

NeighborIsWall(c, i) == IsKind(MazeNeighbors(maze, c[1], c[2])[i], "Wall")

CorridorCells == {c \in DOMAIN maze.cells : maze.cells[c].kind = "Corridor"}

RoomCells == {c \in DOMAIN maze.cells : maze.cells[c].kind = "Room"}

OverfillEdges == model.region_overfill_edges

\* the statement of C13 as written: the region's edge is left rough on
\* every occurrence, and no other edge is
C13_RegionEdgeAlwaysRough ==
    pc = "walled" =>
        \A c \in CorridorCells :
            /\ maze.cells[c].region \in DOMAIN OverfillEdges
            /\ OverfillEdges[maze.cells[c].region] \in 1..4
            /\ \A i \in 1..4 :
                  LeftRough(c, i) <=> i = OverfillEdges[maze.cells[c].region]

\* C13: a Corridor region has at most one edge index in 1..4 memoized in
\* region_overfill_edges, set once and never changed; on an occurrence of
\* the region an edge is left rough only if it is that edge and the
\* neighbour across it is a Wall; no other edge is roughened.
C13_OnlyRegionEdgeRough ==
    /\ [](\A r \in DOMAIN OverfillEdges : OverfillEdges[r] \in 1..4)
    /\ [](pc = "walled" =>
            \A c \in CorridorCells : \A i \in 1..4 :
                LeftRough(c, i) =>
                    /\ maze.cells[c].region \in DOMAIN OverfillEdges
                    /\ i = OverfillEdges[maze.cells[c].region]
                    /\ NeighborIsWall(c, i))
    /\ [][\A r \in DOMAIN OverfillEdges :
            /\ r \in DOMAIN OverfillEdges'
            /\ OverfillEdges'[r] = OverfillEdges[r]]_vars

\* one cell of the region with its edge left rough, another with the same
\* edge towards a Wall carved
C13_Witness ==
    /\ pc = "walled"
    /\ \E c, d \in CorridorCells :
          /\ c # d
          /\ CorridorRegion \in DOMAIN OverfillEdges
          /\ LeftRough(c, OverfillEdges[CorridorRegion])
          /\ NeighborIsWall(d, OverfillEdges[CorridorRegion])
          /\ ~LeftRough(d, OverfillEdges[CorridorRegion])

(***************************************************************************)
(* The boundary between two Corridor cells of one region.                  *)
(***************************************************************************)
\* the cell across edge i of c: 1 is above, 2 to the right, 3 below, 4 to
\* the left
Across(c, i) ==
    CASE i = 1 -> <<c[1], c[2] - 1>>
      [] i = 2 -> <<c[1] + 1, c[2]>>
      [] i = 3 -> <<c[1], c[2] + 1>>
      [] i = 4 -> <<c[1] - 1, c[2]>>

Opposite(i) == ((i + 1) % 4) + 1

\* C14: two adjacent Corridor cells of the same region decide alike on the
\* boundary they share: the edge tiles of both sides are carved, or those
\* of neither, whatever the draws were.
C14_SharedBoundaryAgrees ==
    pc = "walled" =>
        \A c \in CorridorCells : \A i \in 1..4 :
            (/\ Across(c, i) \in CorridorCells
             /\ maze.cells[Across(c, i)].region = maze.cells[c].region)
                => (LeftRough(c, i) <=> LeftRough(Across(c, i), Opposite(i)))

\* two such cells, one of which left an edge rough: the region's edge was
\* in use
C14_Witness ==
    /\ pc = "walled"
    /\ \E c \in CorridorCells : \E i \in 1..4 :
          /\ Across(c, i) \in CorridorCells
          /\ maze.cells[Across(c, i)].region = maze.cells[c].region
          /\ ~LeftRough(c, i)
          /\ \E j \in 1..4 : LeftRough(c, j) \/ LeftRough(Across(c, i), j)

(***************************************************************************)
(* One application of carve_wall.                                          *)
(***************************************************************************)
CarvedRoom == cw_pc = "carved" /\ cw_in.self.kind = "Room"

CarvedCorridor == cw_pc = "carved" /\ cw_in.self.kind = "Corridor"

\* the draws the application made
DrawsMade == cw_out.model.rand.pos

\* C15: of the 100 values of the roll of a Room occurrence exactly
\* room_edge_overfill_chance lead to roughening (all of them at chance 100,
\* none at chance 0), and the occurrence neither reads nor leaves anything
\* in the memo of another occurrence.
C15_ChanceValuesOfHundredRoughen ==
    /\ (cw_pc = "counted" /\ cw_in.self.kind = "Room" /\ cw_in.sides # {}) =>
          cw_out.count = cw_in.chance
    /\ CarvedRoom => cw_out.model.region_overfill_edges = cw_in.edges

\* the statement of C16 as written: an edge of a Room occurrence is left
\* rough only if it is the drawn edge and its neighbour is a Wall
C16_OnlyDrawnEdgeRough ==
    CarvedRoom =>
        \A i \in RoughEdges(cw_out.model) : i = cw_out.edge /\ i \in cw_in.sides

\* C16: a Room occurrence whose roll succeeds draws an edge index in 1..4
\* for itself only, nothing is memoized, and every edge whose neighbour is
\* a Wall is left rough, whatever the index drawn; an occurrence whose roll
\* fails draws no index and leaves no edge rough.
C16_EveryWallEdgeRough ==
    CarvedRoom =>
        /\ DrawsMade \in {1, 2}
        /\ cw_out.model.region_overfill_edges = cw_in.edges
        /\ DrawsMade = 1 => RoughEdges(cw_out.model) = {}
        /\ DrawsMade = 2 =>
              /\ cw_out.edge \in 1..4
              /\ RoughEdges(cw_out.model) = cw_in.sides

\* two edges left rough although the index drawn is that of a third
C16_Witness ==
    /\ CarvedRoom
    /\ cw_in.sides = {1, 2}
    /\ cw_out.edge = 3
    /\ RoughEdges(cw_out.model) = {1, 2}

\* C20: a Corridor occurrence draws an edge index only when its region has
\* no entry in region_overfill_edges; an occurrence that finds an entry
\* draws no index; an entry is never changed and is always in 1..4.
C20_EdgeDrawnOnFirstVisitOnly ==
    CarvedCorridor =>
        LET region == cw_in.self.region
            after == cw_out.model.region_overfill_edges
        IN  /\ region \in DOMAIN cw_in.edges =>
                  /\ DrawsMade <= 1
                  /\ after = cw_in.edges
            /\ region \notin DOMAIN cw_in.edges =>
                  /\ DrawsMade \in {1, 2}
                  /\ DrawsMade = 1 => after = cw_in.edges
                  /\ DrawsMade = 2 => after = MapPut(cw_in.edges, region, cw_out.edge)
            /\ \A r \in DOMAIN after : after[r] \in 1..4

(***************************************************************************)
(* The corners of a carved cell.                                           *)
(***************************************************************************)
\* corner k of the coarse cell c lies between edge k and the next edge:
\* 1 top-right, 2 bottom-right, 3 bottom-left, 4 top-left
CornerTile(gm, c, k) ==
    LET offset == from_region_coords(gm, c[1], c[2])
        right == offset.x + gm.total_grid_size.x - gm.model.grid_width
        bottom == offset.y + gm.total_grid_size.y - gm.model.grid_height
    IN  CASE k = 1 -> <<right, offset.y>>
          [] k = 2 -> <<right, bottom>>
          [] k = 3 -> <<offset.x, bottom>>
          [] k = 4 -> <<offset.x, offset.y>>

NextEdge(k) == (k % 4) + 1

\* C17: a corner tile of a carved cell is set if and only if neither of
\* the two edges that meet in it is rough (top-right: 1 and 2, bottom-right:
\* 2 and 3, bottom-left: 3 and 4, top-left: 4 and 1).
C17_CornerSetIffBothEdgesCarved ==
    pc = "walled" =>
        \A c \in RegionCells : \A k \in 1..4 :
            (Walls[CornerTile(model, c, k)].elev = CarvedElev)
                <=> (~LeftRough(c, k) /\ ~LeftRough(c, NextEdge(k)))

\* a Room cell with one edge rough: the two corners on it are not set, the
\* other two are
C17_Witness ==
    /\ pc = "walled"
    /\ \E c \in RegionCells :
          /\ LeftRough(c, 2)
          /\ \A i \in {1, 3, 4} : ~LeftRough(c, i)
          /\ Walls[CornerTile(model, c, 1)].elev # CarvedElev
          /\ Walls[CornerTile(model, c, 2)].elev # CarvedElev
          /\ Walls[CornerTile(model, c, 3)].elev = CarvedElev
          /\ Walls[CornerTile(model, c, 4)].elev = CarvedElev

(***************************************************************************)
(* The two modes of add_walls.                                             *)
(***************************************************************************)
Invert == generator.room_params.invert

\* what one pick_index call of the generator can select
PickableKinds ==
    IF NoSelection THEN {None}
    ELSE {Some(i - 1) : i \in 1..Len(generator.wall_kinds.kinds)}

\* the draws one pick_index call makes
PickDraws == IF NoSelection THEN 0 ELSE 1

WallOf(kind) == [elev |-> 1, kind |-> kind]

OpenTile == [elev |-> 0, kind |-> None]

\* the cell the carving loop visits next
CurrentCell == <<IterPoint(maze.width, cell).x, IterPoint(maze.width, cell).y>>

\* the regions of the cells the carving loop has visited
VisitedRegions ==
    {maze.cells[c].region : c \in {d \in RegionCells : d[1] + d[2] * maze.width < cell}}

\* C18: in non-invert mode add_walls first makes every tile a wall of one
\* kind picked by a single pick_index call; pick_wall_kind then draws
\* nothing and memoizes nothing; each tile carved for a region cell ends
\* open (elevation 0, no kind) and each tile never carved keeps elevation 1
\* and the one kind.
C18_NonInvertCarvesOpen ==
    /\ []((~Invert /\ pc = "carve" /\ cell = 0) =>
            /\ model.rand.pos = PickDraws
            /\ \E k \in PickableKinds : \A p \in DOMAIN Walls : Walls[p] = WallOf(k))
    /\ []((~Invert /\ pc \in {"carve", "walled"}) => mapped = EmptyMap)
    /\ []((~Invert /\ pc = "walled") =>
            \E k \in PickableKinds : \A c \in DOMAIN maze.cells :
                /\ \A p \in CellPoints(model, c) : Walls[p] \in {OpenTile, WallOf(k)}
                /\ c \notin RegionCells =>
                      \A p \in CellPoints(model, c) : Walls[p] = WallOf(k)
                /\ c \in RegionCells =>
                      /\ Walls[CentreTile(model, c)] = OpenTile
                      /\ \A i \in 1..4 :
                            \/ \A p \in EdgeTiles(model, c, i) : Walls[p] = OpenTile
                            \/ \A p \in EdgeTiles(model, c, i) : Walls[p] = WallOf(k))
    /\ [][(~Invert /\ pc = "carve") =>
            /\ \A p \in DOMAIN Walls :
                  model'.model.walls[p] \in {Walls[p], OpenTile}
            /\ model'.rand.pos - model.rand.pos <= 2
            /\ CurrentCell \notin RegionCells => model' = model]_vars

\* the second of two kinds was picked, a cell kept a rough edge, and a Wall
\* cell stands
C18_Witness ==
    /\ pc = "walled"
    /\ ~Invert
    /\ generator.wall_kinds.kinds = TwoKinds
    /\ \E c \in DOMAIN maze.cells : c \notin RegionCells /\
          \A p \in CellPoints(model, c) : Walls[p] = WallOf(Some(1))
    /\ \E c \in RegionCells : \E i \in 1..4 : LeftRough(c, i)

\* C19: in invert mode add_walls first makes every tile open without a
\* pick; pick_index is then called once for each region, at the first cell
\* of the region in iteration order, and its result stays the region's
\* kind; each tile carved for a region cell gets elevation 1 and the kind of
\* the region, and each tile never carved stays open.
C19_InvertCarvesWalls ==
    /\ []((Invert /\ pc = "carve" /\ cell = 0) =>
            /\ model.rand.pos = 0
            /\ \A p \in DOMAIN Walls : Walls[p] = OpenTile)
    /\ []((Invert /\ pc \in {"carve", "walled"}) =>
            /\ DOMAIN mapped = VisitedRegions
            /\ \A r \in DOMAIN mapped : mapped[r] \in PickableKinds)
    /\ []((Invert /\ pc = "walled") =>
            \A c \in DOMAIN maze.cells :
                /\ c \notin RegionCells =>
                      \A p \in CellPoints(model, c) : Walls[p] = OpenTile
                /\ c \in RegionCells =>
                      /\ Walls[CentreTile(model, c)] = WallOf(mapped[maze.cells[c].region])
                      /\ \A p \in CellPoints(model, c) :
                            Walls[p] \in {OpenTile, WallOf(mapped[maze.cells[c].region])})
    /\ [][(Invert /\ pc = "carve" /\ pc' = "carve") =>
            /\ \A r \in DOMAIN mapped : r \in DOMAIN mapped' /\ mapped'[r] = mapped[r]
            /\ CurrentCell \notin RegionCells => (model' = model /\ mapped' = mapped)
            /\ CurrentCell \in RegionCells =>
                  IF maze.cells[CurrentCell].region \in DOMAIN mapped
                  THEN /\ mapped' = mapped
                       /\ model'.rand.pos - model.rand.pos \in 1..2
                  ELSE /\ DOMAIN mapped' = DOMAIN mapped \cup {maze.cells[CurrentCell].region}
                       /\ model'.rand.pos - model.rand.pos - PickDraws \in 1..2]_vars

\* two regions with different kinds, the first of them met a second time
C19_Witness ==
    /\ pc = "walled"
    /\ Invert
    /\ generator.wall_kinds.kinds = TwoKinds
    /\ mapped = MapPut(MapPut(EmptyMap, RoomRegion, Some(1)), CorridorRegion, Some(0))
    /\ maze.cells[<<0, 0>>] = RoomCell(RoomRegion)
    /\ maze.cells[<<1, 0>>] = CorridorCell(CorridorRegion)
    /\ maze.cells[<<0, 1>>] = RoomCell(RoomRegion)
    /\ maze.cells[<<1, 1>>] = WallCell

(***************************************************************************)
(* Roughness needs a Wall across the edge.                                 *)
(***************************************************************************)
\* the values edge_choice can take
EdgeChoices == {None} \cup {Some(e) : e \in 1..4}

\* edge i of the cell c has no Wall across it, or c is itself a Wall
NeverRough(c, i) == ~NeighborIsWall(c, i) \/ c \notin RegionCells

\* C21: is_rough_edge is false, whatever the edge choice, for an edge whose
\* neighbour is not a Wall (a cell of a region, or no cell at all) and for
\* every edge of a cell that is neither a Room nor a Corridor; so after
\* add_walls the edge tiles of a region cell towards anything but a Wall
\* are carved, and a boundary between two region cells is carved on both
\* of its sides.
C21_RoughOnlyAgainstWall ==
    /\ \A c \in DOMAIN maze.cells : \A i \in 1..4 : \A choice \in EdgeChoices :
          NeverRough(c, i) =>
              ~is_rough_edge(MazeNeighbors(maze, c[1], c[2]), i, choice)
    /\ pc = "walled" =>
          \A c \in RegionCells : \A i \in 1..4 :
              /\ ~NeighborIsWall(c, i) => ~LeftRough(c, i)
              /\ Across(c, i) \in RegionCells =>
                    ~LeftRough(Across(c, i), Opposite(i))

\* a region cell that left an edge rough next to another region cell: the
\* boundary between the two is carved all the same
C21_Witness ==
    /\ pc = "walled"
    /\ \E c \in RegionCells : \E i, j \in 1..4 :
          /\ Across(c, i) \in RegionCells
          /\ LeftRough(c, j)
          /\ ~LeftRough(c, i)
          /\ ~LeftRough(Across(c, i), Opposite(i))

(***************************************************************************)
(* The layer snapshot handed to the feature, prop and encounter passes.    *)
(***************************************************************************)
\* the tile is in the stack of the cell at index in the layer it names
LayerHas(ls, tile, index) ==
    \E i \in 1..Len(ls) :
        /\ ls[i].id = tile.layer
        /\ index \in DOMAIN ls[i].tiles
        /\ \E k \in 1..Len(ls[i].tiles[index]) : ls[i].tiles[index][k] = tile

\* every stack of the layers ls is the beginning of the stack of the same
\* cell of the layer with the same id in ms
LayersWithin(ls, ms) ==
    \A i \in 1..Len(ls) : \E j \in 1..Len(ms) :
        /\ ms[j].id = ls[i].id
        /\ \A c \in DOMAIN ls[i].tiles :
              IsPrefix(ls[i].tiles[c], ms[j].tiles[c])

AfterSnapshot == pc \in {"features", "props", "encounters", "final"}

\* the tiles handed in that lie inside the area
AddedInside ==
    {i \in 1..Len(args.tiles_to_add) :
        InBounds(args.tiles_to_add[i], args.width, args.height)}

\* C22: the snapshot is built once in a call, from the model as it is after
\* the terrain was generated, the tiles handed in were added and the wall
\* and terrain tiles were derived; the feature, prop and encounter passes
\* all read that one snapshot; a tile a pass adds later is not in it but is
\* in the layers of the output, which hold every tile of the snapshot.
C22_OneSnapshotBeforeThePasses ==
    /\ [](/\ pc = "features" =>
                /\ layers = create_layers(args.width, args.height,
                                          model.model.tiles).layers
                /\ model.model.terrain # None
                /\ SelectSeq(trace, LAMBDA s : s \in {"terrain", "tiles"})
                      = <<"terrain", "tiles">>
                /\ \A i \in AddedInside :
                      LayerHas(layers, args.tiles_to_add[i].tile,
                               args.tiles_to_add[i].x
                                   + args.tiles_to_add[i].y * args.width)
          /\ AfterSnapshot =>
                /\ Len(SelectSeq(trace, LAMBDA s : s = "snapshot")) = 1
                /\ \A c \in 0..(args.width * args.height - 1) :
                      ~LayerHas(layers, FeatureTile, c)
          /\ result.status = "ok" =>
                /\ LayersWithin(layers, result.output.layers)
                /\ \E c \in 0..(args.width * args.height - 1) :
                      /\ LayerHas(result.output.layers, FeatureTile, c)
                      /\ ~LayerHas(layers, FeatureTile, c))
    /\ [][AfterSnapshot => layers' = layers]_vars

\* a call that was handed a tile inside the area and whose feature pass
\* added a tile: the snapshot has the first and not the second
C22_Witness ==
    /\ pc = "returned"
    /\ result.status = "ok"
    /\ AddedInside # {}
    /\ LayerHas(layers, AddedTile, 1 + args.width)
    /\ \E c \in 0..(args.width * args.height - 1) :
          /\ LayerHas(result.output.layers, FeatureTile, c)
          /\ ~LayerHas(layers, FeatureTile, c)
          /\ ~LayersWithin(result.output.layers, layers)

(***************************************************************************)
(* The block of tiles carve_wall covers.                                   *)
(***************************************************************************)
Shaped == cw_pc = "shaped"

\* the grid positions offset + (0, step, ..., max - step) in both axes
Block(offset, step, max) ==
    {<<offset.x + i, offset.y + j>> :
        i \in {v \in 0..(max.x - step.x) : v % step.x = 0},
        j \in {v \in 0..(max.y - step.y) : v % step.y = 0}}

\* the positions of the block on none of its four border lines
Interior(offset, step, max) ==
    {p \in Block(offset, step, max) :
        /\ p[1] \notin {offset.x, offset.x + max.x - step.x}
        /\ p[2] \notin {offset.y, offset.y + max.y - step.y}}

\* the tiles the application changed
TilesSet ==
    {p \in DOMAIN cw_out.model.model.walls :
        cw_out.model.model.walls[p] # cw_out.before.model.walls[p]}

\* the edges that were rough in the application
RoughOfShape ==
    {i \in 1..4 : is_rough_edge(NeighborsOf(cw_in.self, cw_in.sides), i, cw_out.choice)}

\* C25: carve_wall on a cell whose size is a positive multiple of the step
\* sets no tile outside the block offset + (0, step, ..., max - step), gives
\* every tile it sets the elevation and wall kind it was called with, sets
\* the interior of the block whichever edges are rough, and sets the whole
\* block when no edge is rough.
C25_BlockCoveredWithoutRoughness ==
    Shaped =>
        LET block == Block(cw_out.offset, cw_out.step, cw_out.max)
        IN  /\ TilesSet \subseteq block
            /\ \A p \in TilesSet :
                  cw_out.model.model.walls[p] = [elev |-> 1, kind |-> Some(0)]
            /\ Interior(cw_out.offset, cw_out.step, cw_out.max) \subseteq TilesSet
            /\ RoughOfShape = {} => TilesSet = block

\* a cell of 3 x 3 tiles of size 2 x 1 away from the origin, carved whole
C25_Witness ==
    /\ Shaped
    /\ cw_out.offset = Point(6, 3)
    /\ cw_out.step = Point(2, 1)
    /\ cw_in.sides = {1, 2}
    /\ RoughOfShape = {}
    /\ TilesSet = {<<6, 3>>, <<8, 3>>, <<10, 3>>, <<6, 4>>, <<8, 4>>, <<10, 4>>,
                   <<6, 5>>, <<8, 5>>, <<10, 5>>}

(***************************************************************************)
(* The cells add_walls passes over.                                        *)
(***************************************************************************)
\* the cells for which maze.region returns None
NoRegionCells ==
    {c \in DOMAIN maze.cells : MazeRegion(maze, c[1], c[2]) = None}

\* what the first loop of add_walls (lines 165-174) left in a tile
IsInitialFill(tile) ==
    IF Invert THEN tile = OpenTile
    ELSE \E k \in PickableKinds : tile = WallOf(k)

\* C26: the turn of the carving loop for a cell without a region changes
\* nothing: no tile, no draw, no entry of the wall-kind memo or of the
\* overfill edges; and no turn for another cell changes a tile of such a
\* cell, so its tiles keep the initial fill to the end: open in invert
\* mode, a wall of the one global kind otherwise.
C26_CellsWithoutRegionUntouched ==
    /\ [][(pc = "carve" /\ CurrentCell \in NoRegionCells) =>
            /\ model'.model.walls = Walls
            /\ model'.rand = model.rand
            /\ model'.region_overfill_edges = OverfillEdges
            /\ mapped' = mapped]_vars
    /\ [][pc = "carve" =>
            \A c \in NoRegionCells : \A p \in CellPoints(model, c) :
                model'.model.walls[p] = Walls[p]]_vars
    /\ [](pc \in {"carve", "walled"} =>
            /\ \A c \in NoRegionCells : \A p \in CellPoints(model, c) :
                  IsInitialFill(Walls[p])
            /\ \A c, d \in NoRegionCells :
                  \A p \in CellPoints(model, c), q \in CellPoints(model, d) :
                      Walls[p] = Walls[q])

\* in invert mode a cell without a region lies between two carved cells of
\* which the second made draws: its tiles are open and nothing was
\* memoized for it
C26_Witness ==
    /\ pc = "walled"
    /\ Invert
    /\ <<1, 0>> \in NoRegionCells
    /\ {<<0, 0>>, <<1, 1>>} \subseteq RegionCells
    /\ \A p \in CellPoints(model, <<1, 0>>) : Walls[p] = OpenTile
    /\ Walls[CentreTile(model, <<1, 1>>)] = WallOf(Some(1))
    /\ DOMAIN mapped = {RoomRegion, CorridorRegion}
    /\ DOMAIN OverfillEdges = {CorridorRegion}

(***************************************************************************)
(* The selected party members.                                             *)
(***************************************************************************)
Game == Unwrap(game_state)

Selecting ==
    /\ gs_pc = "party"
    /\ gs_obs # NoResult
    /\ gs_obs.op \in {"select_party_members", "set_selected_party_member",
                      "clear_selected_party_member"}

MembersOf(list) == {list[i] : i \in 1..Len(list)}

\* C23: after select_party_members(members) the selected entities are the
\* party members that occur in members, each once and in party order; no
\* entity outside the party is selected; the listeners were notified once,
\* with the first selected entity or with None.
C23_SelectedIsPartyFilteredByMembers ==
    Selecting =>
        /\ Game.selected = SelectSeq(Game.party,
                                     LAMBDA e : e \in MembersOf(gs_obs.members))
        /\ MembersOf(Game.selected) \subseteq PartyOf(Game)
        /\ Game.party_listeners = <<FirstOf(Game.selected)>>

(***************************************************************************)
(* The AreaState objects GameState::transition makes and stores.           *)
(***************************************************************************)
Running == gs_pc = "running"

\* the step is a call of GameState::transition
IsTransition == Running /\ gs_obs'.op = "transition"

StoredRefs(gs) == {gs.areas[id] : id \in DOMAIN gs.areas}

\* C24: a transition sets up (and populates) an AreaState only for an area
\* id that has no stored state, and stores it under that id; for an id with
\* a stored state it makes none and leaves the stored one in place.  So
\* there is never more than one AreaState of an area id, each is stored
\* under its id, and each was populated exactly once.
C24_OneAreaStatePerAreaId ==
    /\ [](Running =>
            /\ \A i, j \in 1..Len(area_states) :
                  area_states[i].area.id = area_states[j].area.id => i = j
            /\ \A i \in 1..Len(area_states) : area_states[i].populated = 1
            /\ \A id \in DOMAIN Game.areas : area_states[Game.areas[id]].area.id = id
            /\ StoredRefs(Game) = 1..Len(area_states))
    /\ [][IsTransition =>
            LET target == gs_obs'.area_id
                stored == target # None /\ Unwrap(target) \in DOMAIN Game.areas
                made == Len(area_states') > Len(area_states)
            IN  /\ \A id \in DOMAIN Game.areas :
                      /\ id \in DOMAIN Unwrap(game_state').areas
                      /\ Unwrap(game_state').areas[id] = Game.areas[id]
                      /\ area_states'[Game.areas[id]].populated
                            = area_states[Game.areas[id]].populated
                /\ made <=> (target # None /\ ~stored
                             /\ ModuleArea(Unwrap(target)) # None)
                /\ made =>
                      /\ Len(area_states') = Len(area_states) + 1
                      /\ Unwrap(game_state').areas[Unwrap(target)] = Len(area_states')
                /\ ~made => DOMAIN Unwrap(game_state').areas = DOMAIN Game.areas]_vars

\* the party came back to the town by a transition after a visit to the
\* cave: the stored state of the town is the current one again
C24_Witness ==
    /\ Running
    /\ gs_obs = [op |-> "transition", area_id |-> Some("town"), x |-> 1, y |-> 1,
                 status |-> "done"]
    /\ DOMAIN Game.areas = {"town", "cave"}
    /\ Game.areas["town"] = 1
    /\ Game.area_state = Game.areas["town"]
    /\ area_states[Game.area_state].scroll_to # None
    /\ area_states[Game.areas["cave"]].scroll_to # None

(***************************************************************************)
(* The OnAreaLoad callbacks of an area state.                              *)
(***************************************************************************)
\* the callbacks add_ui_callbacks_of_kind queues for the area's triggers of
\* the kind, for the player character
CallbacksOfKind(area, kind) ==
    LET of_kind == SelectSeq(area.triggers, LAMBDA t : t.kind = kind)
    IN  [i \in 1..Len(of_kind) |-> UICallbackOf(of_kind[i].on_activate, "pc", "pc")]

\* how often the callback is pending
Pending(cb) ==
    Cardinality({i \in 1..Len(Game.ui_callbacks) : Game.ui_callbacks[i] = cb})

\* the area states whose on_load_fired the step changed
Fired == {i \in 1..Len(area_states') :
             i > Len(area_states) \/ area_states'[i].on_load_fired
                                        # area_states[i].on_load_fired}

\* C27: over GameState::init and the transitions after it the OnAreaLoad
\* callbacks of an area state are queued at most once: they are pending
\* once if on_load_fired is set and not at all otherwise; a step queues
\* them only for an area state whose on_load_fired it turns from false to
\* true, and on_load_fired is never turned back.
C27_OnAreaLoadQueuedOnce ==
    /\ [](Running =>
            \A i \in 1..Len(area_states) :
                LET load == CallbacksOfKind(area_states[i].area, "OnAreaLoad")
                IN  \A k \in 1..Len(load) :
                        Pending(load[k]) = IF area_states[i].on_load_fired THEN 1 ELSE 0)
    /\ [][Running =>
            /\ \A i \in 1..Len(area_states) :
                  area_states[i].on_load_fired => area_states'[i].on_load_fired
            /\ \A i \in 1..Len(area_states') :
                  i > Len(area_states) =>
                      (area_states'[i].on_load_fired <=> Unwrap(game_state').area_state = i)
            /\ LET now == {i \in Fired : area_states'[i].on_load_fired}
               IN  /\ Cardinality(now) <= 1
                   /\ now = {} => Unwrap(game_state').ui_callbacks = Game.ui_callbacks
                   /\ \A i \in now :
                         /\ Unwrap(game_state').area_state = i
                         /\ Unwrap(game_state').ui_callbacks
                               = Game.ui_callbacks
                                   \o CallbacksOfKind(area_states'[i].area, "OnAreaLoad")]_vars

\* both areas were loaded and the party moved again inside the one it is
\* in: nothing more was queued
C27_Witness ==
    /\ Running
    /\ gs_obs = [op |-> "transition", area_id |-> None, x |-> 0, y |-> 0,
                 status |-> "done"]
    /\ Len(area_states) = 2
    /\ \A i \in 1..2 : area_states[i].on_load_fired
    /\ Len(Game.ui_callbacks) = 4

(***************************************************************************)
(* What a transition changes.                                              *)
(***************************************************************************)
\* the area the transition of the step is aimed at: the current one when no
\* id is given; None when the module has no area of the id
TargetArea ==
    IF gs_obs'.area_id = None THEN Some(area_states[Game.area_state].area)
    ELSE ModuleArea(Unwrap(gs_obs'.area_id))

\* the coordinates of the step's transition lie in the area
ValidIn(area) ==
    /\ 0 <= gs_obs'.x /\ gs_obs'.x < area.width
    /\ 0 <= gs_obs'.y /\ gs_obs'.y < area.height

\* the area states that have the entity among their entities
AreasOf(heap, e) == {i \in 1..Len(heap) : e \in heap[i].entities}

\* C30: a transition to coordinates that are not valid for the target area,
\* or to an area that cannot be set up, leaves the current area state, the
\* path finder, the clear-animations flag and every entity's area and
\* location as they were.  A transition to valid coordinates sets the
\* flag, makes the target area the current one with a path finder for it,
\* and leaves no party member in any other area than the target.
C30_FailedTransitionChangesNothing ==
    [][IsTransition =>
        LET after == Unwrap(game_state')
        IN  IF TargetArea = None \/ ~ValidIn(Unwrap(TargetArea))
            THEN /\ gs_obs'.status = "returned"
                 /\ after.area_state = Game.area_state
                 /\ after.path_finder = Game.path_finder
                 /\ clear_anims' = clear_anims
                 /\ entities' = entities
                 /\ after.party = Game.party
                 /\ \A i \in 1..Len(area_states) : area_states'[i] = area_states[i]
            ELSE /\ gs_obs'.status = "done"
                 /\ clear_anims'
                 /\ area_states'[after.area_state].area = Unwrap(TargetArea)
                 /\ after.areas[Unwrap(TargetArea).id] = after.area_state
                 /\ after.path_finder = PathFinderNew(Unwrap(TargetArea))
                 /\ \A i \in 1..Len(after.party) :
                       LET e == after.party[i]
                       IN  /\ AreasOf(area_states', e) \subseteq {after.area_state}
                           /\ AreasOf(area_states', e) # {} =>
                                 entities'[e].location.area_id = Unwrap(TargetArea).id]_vars

\* the party of two went to the cave, where only one of them found a place,
\* and then asked for a point outside the town: it is still in the cave
C30_Witness ==
    /\ Running
    /\ gs_obs = [op |-> "transition", area_id |-> Some("town"), x |-> 0, y |-> 2,
                 status |-> "returned"]
    /\ Game.party = <<"pc", "ally">>
    /\ area_states[Game.area_state].area.id = "cave"
    /\ Game.path_finder.area_id = "cave"
    /\ AreasOf(area_states, "pc") = {Game.area_state}
    /\ AreasOf(area_states, "ally") = {}
    /\ clear_anims

(***************************************************************************)
(* The pending UI callbacks.                                               *)
(***************************************************************************)
InUi == gs_pc = "ui"

PendingCallbacks == Game.ui_callbacks

Occurrences(list, v) == Cardinality({i \in 1..Len(list) : list[i] = v})

\* C28: check_get_ui_callback gives the callback added last among the
\* pending ones and takes it off the list, or None when none is pending;
\* add_ui_callback puts its callback last; add_ui_callbacks_of_kind puts
\* the triggers of the kind last, in the order of the list, and no other;
\* so every callback added is pending or was returned, never both and
\* never twice.
C28_CallbacksFormAStack ==
    /\ [](InUi =>
            /\ \A i \in 1..Len(gs_obs.added) :
                  Occurrences(gs_obs.added, gs_obs.added[i])
                      = Occurrences(gs_obs.returned, gs_obs.added[i])
                          + Occurrences(PendingCallbacks, gs_obs.added[i])
            /\ Len(gs_obs.added) = Len(gs_obs.returned) + Len(PendingCallbacks))
    /\ [][(InUi /\ gs_obs'.op = "check_get_ui_callback") =>
            IF PendingCallbacks = << >>
            THEN /\ gs_obs'.last = None
                 /\ Unwrap(game_state').ui_callbacks = << >>
            ELSE /\ gs_obs'.last = Some(PendingCallbacks[Len(PendingCallbacks)])
                 /\ gs_obs'.last = Some(gs_obs.added[Len(gs_obs.added)])
                       \/ gs_obs.returned # << >>
                 /\ Unwrap(game_state').ui_callbacks
                       = SubSeq(PendingCallbacks, 1, Len(PendingCallbacks) - 1)]_vars
    /\ [][(InUi /\ gs_obs'.op = "add_ui_callbacks_of_kind") =>
            LET of_kind == SelectSeq(gs_obs'.callbacks,
                                     LAMBDA t : t.kind = gs_obs'.kind)
            IN  Unwrap(game_state').ui_callbacks
                    = PendingCallbacks
                        \o [i \in 1..Len(of_kind) |->
                               UICallbackOf(of_kind[i].on_activate, "pc", "pc")]]_vars
    /\ [][(InUi /\ gs_obs'.op = "add_ui_callback") =>
            Unwrap(game_state').ui_callbacks
                = Append(PendingCallbacks, gs_obs'.added[Len(gs_obs'.added)])]_vars

\* a callback was added, then the two OnAreaLoad triggers of the town, and
\* the first get returned the second of those
C28_Witness ==
    /\ InUi
    /\ gs_obs.op = "check_get_ui_callback"
    /\ gs_obs.added = <<UICallbackOf("say", "pc", "pc"),
                        UICallbackOf("town_gate", "pc", "pc"),
                        UICallbackOf("town_bell", "pc", "pc")>>
    /\ gs_obs.returned = <<UICallbackOf("town_bell", "pc", "pc")>>
    /\ PendingCallbacks = <<UICallbackOf("say", "pc", "pc"),
                            UICallbackOf("town_gate", "pc", "pc")>>


(***************************************************************************)
(* C29.  An animation handed to add_animation goes to the end of the       *)
(* pending list and the active list stays as it is.  The animation part of *)
(* update leaves the pending list empty, calls update once on every        *)
(* animation of the active list followed by the pending list, in that      *)
(* order, and the active list becomes that sequence without the animations *)
(* whose update returned false.  At any time no animation is twice in the  *)
(* lists or in both, and every animation ever added is pending, active or  *)
(* was removed after its update returned false.                            *)
(***************************************************************************)
InAnims == gs_pc \in {"anims", "updating"}

NoRepeat(ids) == \A i, j \in 1..Len(ids) : ids[i] = ids[j] => i = j

IdSet(ids) == {ids[i] : i \in 1..Len(ids)}

KeptIds(ids, retain) == SelectSeq(ids, LAMBDA id : retain[id])

AnimsAccounted ==
    InAnims =>
        /\ NoRepeat(AnimIds(animations) \o AnimIds(anims_to_add))
        /\ IdSet(AnimIds(animations) \o AnimIds(anims_to_add)) \cap gs_obs.gone = {}
        /\ IdSet(AnimIds(animations) \o AnimIds(anims_to_add)) \cup gs_obs.gone
               = 0..(gs_obs.next - 1)

AddedStaysPending ==
    (InAnims /\ gs_obs'.next = gs_obs.next + 1) =>
        /\ AnimIds(animations') = AnimIds(animations)
        /\ AnimIds(anims_to_add') = Append(AnimIds(anims_to_add), gs_obs.next)

UpdateMovesAndFilters ==
    (InAnims /\ gs_obs'.op = "update") =>
        /\ anims_to_add' = << >>
        /\ gs_obs'.updated = AnimIds(animations) \o AnimIds(anims_to_add)
        /\ AnimIds(animations') =
               KeptIds(AnimIds(animations) \o AnimIds(anims_to_add), gs_obs'.retain)

============================================================================
